---- MODULE Spec2Model ----
(***************************************************************************)
(* Model of the authentication back end of app-expressjs: the users table  *)
(* (be/config/database.js), the User model and the authMiddleware gate     *)
(* (be/src/models/User.js), the routes (routes/authRoutes.js) and the      *)
(* controller register/login/logout/getProfile (authController, listed in  *)
(* PROYECTO_COMPLETADO.md); and of its client: apiClient with its          *)
(* interceptors (fe/src/services/authService.js) and AuthProvider.         *)
(*                                                                         *)
(* Node runs one handler at a time; a handler gives up control only at an  *)
(* await.  Each action below is therefore the code of one handler between  *)
(* two awaits, and concurrent requests interleave at those points.         *)
(***************************************************************************)
EXTENDS Integers, Sequences, FiniteSets, TLC

---------------------------------------------------------------------------
(* Bounds of the model *)

\* number of HTTP requests in one behaviour
MaxReqs == 3
\* the clock runs from 0 to MaxTime hours ...
MaxTime == 36
\* ... in steps of TickHours hours
TickHours == 12
\* number of rows ever inserted in the users table
MaxRows == 2

(* Program constants *)

\* expiresIn: process.env.JWT_EXPIRES_IN || '24h', in hours
ExpiresIn == 24
\* bcrypt.hash(password, 12)
SaltRounds == 12

JWT_SECRET == "JWT_SECRET"
\* a key that is not the process' secret: what a forger can sign with
OtherKey == "other-key"

Reqs == 1..MaxReqs
Salts == {"salt1", "salt2"}

---------------------------------------------------------------------------
(* Request inputs *)

ValidEmails == {"a@x.com", "A@X.com"}
RawEmails == ValidEmails \cup {"not-an-email"}
RegisterPasswords == {"Abcdef12", "abc"}
LoginPasswords == {"Abcdef12", "abc", ""}

\* validator.js isEmail on the inputs above
isEmail(e) == e \in ValidEmails

\* validator.js normalizeEmail (all_lowercase) on the inputs above
normalizeEmail(e) == IF e = "A@X.com" THEN "a@x.com" ELSE e

\* isLength({min: 8}), /^(?=.*[a-z])(?=.*[A-Z])(?=.*\d)/, contains(' ')
\* on the inputs above
PwLength(p) == CASE p = "Abcdef12" -> 8 [] p = "abc" -> 3 [] OTHER -> 0
PwMixed(p) == p = "Abcdef12"
PwHasSpace(p) == FALSE

NoBody == [email |-> "", password |-> ""]

RegisterBodies ==
  { [email |-> e, nombres |-> "Ana", apellidos |-> "Diaz", password |-> p] :
      e \in RawEmails, p \in RegisterPasswords }

LoginBodies == { [email |-> e, password |-> p] : e \in RawEmails, p \in LoginPasswords }

\* trim(), notEmpty / isLength({min: 2, max: 100}), /^[a-zA-Z...\s]+$/ on the
\* names the requests carry
Names == {"Ana", " ", "A1"}
trim(n) == IF n = " " THEN "" ELSE n
NameLength(n) == CASE n = "Ana" -> 3 [] n = "Diaz" -> 4 [] n = "A1" -> 2 [] n = " " -> 1 [] OTHER -> 0
NameLetters(n) == n \in {"Ana", "Diaz", " "}

\* the validators of body('nombres') and body('apellidos'), after trim()
validateName(n, empty, length, letters) ==
  (IF trim(n) # "" THEN << >> ELSE << empty >>)
  \o (IF NameLength(trim(n)) >= 2 /\ NameLength(trim(n)) <= 100 THEN << >> ELSE << length >>)
  \o (IF NameLetters(trim(n)) THEN << >> ELSE << letters >>)

\* a chain that stops at the first validator that fails
validateRegister_Bail(b) ==
  IF ~isEmail(b.email) THEN << "El email debe tener un formato valido" >>
  ELSE IF PwLength(b.password) < 8 THEN << "El password debe tener al menos 8 caracteres" >>
  ELSE IF ~PwMixed(b.password)
    THEN << "El password debe contener al menos una mayuscula, una minuscula y un numero" >>
  ELSE << >>

\* validateRegister: the messages of the validators that fail, in chain order
validateRegister(b) ==
  (IF isEmail(b.email) THEN << >> ELSE << "El email debe tener un formato valido" >>)
  \o validateName(b.nombres, "Los nombres son obligatorios",
                   "Los nombres deben tener entre 2 y 100 caracteres",
                   "Los nombres solo pueden contener letras y espacios")
  \o validateName(b.apellidos, "Los apellidos son obligatorios",
                   "Los apellidos deben tener entre 2 y 100 caracteres",
                   "Los apellidos solo pueden contener letras y espacios")
  \o (IF PwLength(b.password) >= 8 THEN << >>
      ELSE << "El password debe tener al menos 8 caracteres" >>)
  \o (IF PwMixed(b.password) THEN << >>
      ELSE << "El password debe contener al menos una mayuscula, una minuscula y un numero" >>)
  \o (IF ~PwHasSpace(b.password) THEN << >>
      ELSE << "El password no puede contener espacios" >>)

\* validateLogin
validateLogin(b) ==
  (IF isEmail(b.email) THEN << >> ELSE << "El email debe tener un formato valido" >>)
  \o (IF b.password # "" THEN << >> ELSE << "El password es obligatorio" >>)

\* the sanitizers of the validation chains: req.body after validation
sanitize(b) ==
  [f \in DOMAIN b |->
     CASE f = "email" -> normalizeEmail(b.email)
       [] f \in {"nombres", "apellidos"} -> trim(b[f])
       [] OTHER -> b[f]]

---------------------------------------------------------------------------
(* Time stamps: two formats of the same instant *)

\* new Date().toISOString()
toISOString(t) == [fmt |-> "iso", t |-> t]
\* SQLite CURRENT_TIMESTAMP
CURRENT_TIMESTAMP(t) == [fmt |-> "sql", t |-> t]

---------------------------------------------------------------------------
(* Password hashing *)

\* bcrypt.hash(plain, rounds): the digest embeds the cost and the random salt
bcryptHash(plain, rounds, salt) ==
  [alg |-> "bcrypt", cost |-> rounds, salt |-> salt, plain |-> plain]

\* a compare that hashes with a salt of its own instead of the digest's
bcryptCompare_FreshSalt(plain, digest) ==
  bcryptHash(plain, digest.cost, "salt1") = digest

\* bcrypt.compare(plain, digest): re-hash with the digest's own salt and cost
bcryptCompare(plain, digest) ==
  bcryptHash(plain, digest.cost, digest.salt) = digest

---------------------------------------------------------------------------
(* State *)

VARIABLES
  users,     \* rows of the users table
  lastId,    \* sqlite_sequence: the largest id ever assigned (AUTOINCREMENT)
  now,       \* the clock, in hours
  reqs,      \* the requests: their inputs, position, locals and response
  client,    \* the browser: localStorage, the AuthProvider's state, its HTTP calls
  server     \* the process: its environment, the db of database.js, the listener

vars == << users, lastId, now, reqs, client, server >>

NoRow == [id |-> 0]
NoRes == [status |-> 0]
NoToken == [structure |-> "empty"]
NoHeader == [present |-> FALSE]

\* the process after startServer has run through: initDatabase resolved and
\* app.listen was called
Running ==
  [ NODE_ENV  |-> "production",  \* process.env.NODE_ENV
    db        |-> "open",        \* let db: "null", or the state of the handle
    init      |-> "resolved",    \* the promise of initDatabase()
    listening |-> TRUE,          \* app.listen was called
    exitCode  |-> -1,            \* process.exit(code); -1 while the process runs
    got       |-> "nothing" ]    \* the outcome of the last getDatabase()

IdleReq ==
  [ kind       |-> "idle",
    pc         |-> "idle",
    body       |-> NoBody,
    header     |-> NoHeader,
    user       |-> NoRow,      \* the handler's local: existingUser / user
    decoded    |-> NoRow,      \* the gate's local: the verified payload
    userId     |-> 0,          \* req.userId
    reqUser    |-> NoRow,      \* req.user
    calls      |-> << >>,      \* collaborator calls made for this request
    nextCalls  |-> 0,          \* the calls of next() a middleware made
    sent       |-> 0,          \* the responses sent
    gateSent   |-> 0,          \* the responses authMiddleware sent
    handlerRan |-> FALSE,      \* the route's handler after the gate was entered
    error      |-> "none",     \* the exception caught by the handler's catch
    res        |-> NoRes ]

---------------------------------------------------------------------------
(* The users table *)

\* a lookup that compares the wrong column
findByEmail_WrongColumn(email) ==
  IF \E u \in users : u.nombres = email
    THEN CHOOSE u \in users : u.nombres = email
    ELSE NoRow

\* SELECT * FROM users WHERE email = ?  (db.get: one row or none)
findByEmail(email) ==
  IF \E u \in users : u.email = email
    THEN CHOOSE u \in users : u.email = email
    ELSE NoRow

\* SELECT * FROM users WHERE id = ?
findById(id) ==
  IF \E u \in users : u.id = id
    THEN CHOOSE u \in users : u.id = id
    ELSE NoRow

\* a table created without the UNIQUE constraint
UniqueEmailOk_NoConstraint(email) == TRUE

\* email TEXT UNIQUE NOT NULL: may a row with this email be inserted?
UniqueEmailOk(email) == \A u \in users : u.email # email

\* the row INSERT INTO users (email, nombres, apellidos, password) creates
NewRow(id, b, digest) ==
  [ id         |-> id,
    email      |-> b.email,
    nombres    |-> b.nombres,
    apellidos  |-> b.apellidos,
    password   |-> digest,
    created_at |-> CURRENT_TIMESTAMP(now),
    updated_at |-> CURRENT_TIMESTAMP(now) ]

\* a projection that hands out the row as it is stored
toPublicJSON_WholeRow(u) == u

\* User.prototype.toPublicJSON
toPublicJSON(u) ==
  [ id         |-> u.id,
    email      |-> u.email,
    nombres    |-> u.nombres,
    apellidos  |-> u.apellidos,
    created_at |-> u.created_at,
    updated_at |-> u.updated_at ]

---------------------------------------------------------------------------
(* Responses *)

Json(status, success, message) ==
  [status |-> status, success |-> success, message |-> message]

ValidationFailed(errors) ==
  [ status |-> 400, success |-> FALSE, message |-> "Errores de validacion",
    errors |-> errors ]

InternalError == Json(500, FALSE, "Error interno del servidor")

EmailTaken == Json(409, FALSE, "El email ya esta registrado")

\* the user object register builds from User.create's result
RegisterUser(userData) ==
  [ id         |-> userData.id,
    email      |-> userData.email,
    nombres    |-> userData.nombres,
    apellidos  |-> userData.apellidos,
    created_at |-> userData.created_at ]

Registered(userData) ==
  [ status |-> 201, success |-> TRUE, message |-> "Usuario registrado exitosamente",
    user |-> RegisterUser(userData) ]

---------------------------------------------------------------------------
(* Helpers on requests *)

Finish(r, q, res) ==
  reqs' = [reqs EXCEPT ![r] = [q EXCEPT !.pc = "done", !.res = res, !.sent = @ + 1]]

\* a response sent by authMiddleware
GateFinish(r, q, res) == Finish(r, [q EXCEPT !.gateSent = @ + 1], res)

\* requests arrive in the order of their numbers
MayArrive(r) ==
  /\ server.listening
  /\ reqs[r].kind = "idle"
  /\ \A s \in Reqs : s < r => reqs[s].kind # "idle"

---------------------------------------------------------------------------
(* POST /api/auth/register: validateRegister, authController.register *)

\* the request arrives; the validation chain runs; register checks
\* validationResult and calls User.findByEmail
RegisterStart(r, b) ==
  /\ MayArrive(r)
  /\ LET q == [reqs[r] EXCEPT !.kind = "register", !.body = sanitize(b)]
         errors == validateRegister(b)
     IN IF errors # << >>
          THEN Finish(r, q, ValidationFailed(errors))
          ELSE reqs' = [reqs EXCEPT ![r] =
                 [q EXCEPT !.pc = "findByEmail", !.calls = << "findByEmail" >>]]
  /\ UNCHANGED << users, lastId, now, client, server >>

\* the SELECT of User.findByEmail runs; register answers 409 or calls
\* User.create, which awaits bcrypt.hash
RegisterFindByEmail(r) ==
  /\ reqs[r].kind = "register"
  /\ reqs[r].pc = "findByEmail"
  /\ LET existingUser == findByEmail(reqs[r].body.email)
         q == [reqs[r] EXCEPT !.user = existingUser]
     IN IF existingUser # NoRow
          THEN Finish(r, q, EmailTaken)
          ELSE reqs' = [reqs EXCEPT ![r] =
                 [q EXCEPT !.pc = "create", !.calls = @ \o << "bcrypt.hash" >>]]
  /\ UNCHANGED << users, lastId, now, client, server >>

\* bcrypt.hash has resolved; the INSERT of User.create runs; register answers
\* 201, or its catch answers 500 when the INSERT was rejected
RegisterCreate(r) ==
  /\ reqs[r].kind = "register"
  /\ reqs[r].pc = "create"
  /\ \E salt \in Salts :
       LET b == reqs[r].body
           hashedPassword == bcryptHash(b.password, SaltRounds, salt)
           q == [reqs[r] EXCEPT !.calls = @ \o << "INSERT" >>]
       IN IF UniqueEmailOk(b.email)
            THEN /\ lastId < MaxRows
                 /\ LET row == NewRow(lastId + 1, b, hashedPassword)
                        userData == [ id |-> lastId + 1, email |-> b.email,
                                      nombres |-> b.nombres, apellidos |-> b.apellidos,
                                      created_at |-> toISOString(now) ]
                    IN /\ users' = users \cup {row}
                       /\ lastId' = lastId + 1
                       /\ Finish(r, q, Registered(userData))
            ELSE /\ Finish(r, [q EXCEPT !.error = "SQLITE_CONSTRAINT"], InternalError)
                 /\ UNCHANGED << users, lastId >>
  /\ UNCHANGED << now, client, server >>

---------------------------------------------------------------------------
(* Tokens: jsonwebtoken's sign and verify *)

\* the part of a token the signature covers
Payload(t) == [f \in (DOMAIN t) \ {"structure", "sig"} |-> t[f]]

\* the HMAC of a payload under a key: equal only for equal payload and key
HS256(payload, key) == [payload |-> payload, key |-> key]

\* jwt.sign({ userId }, secret, { expiresIn }): adds iat and exp
jwtSign(userId, secret, expiresIn) ==
  LET payload == [userId |-> userId, iat |-> now, exp |-> now + expiresIn]
  IN [ structure |-> "jwt", userId |-> userId, iat |-> now, exp |-> now + expiresIn,
       sig |-> HS256(payload, secret) ]

\* generateToken
generateToken(userId) == jwtSign(userId, JWT_SECRET, ExpiresIn)

\* a verify that ignores the exp claim
jwtVerify_NoExpiry(t, secret) ==
  IF t.structure # "jwt" THEN "JsonWebTokenError"
  ELSE IF t.sig # HS256(Payload(t), secret) THEN "JsonWebTokenError"
  ELSE "ok"

\* a verify that decodes the token without checking its signature
jwtVerify_NoSignature(t, secret) ==
  IF t.structure # "jwt" THEN "JsonWebTokenError"
  ELSE IF "nbf" \in DOMAIN t /\ t.nbf > now THEN "NotBeforeError"
  ELSE IF now >= t.exp THEN "TokenExpiredError"
  ELSE "ok"

\* a verify that refuses the tokens presented to the logout endpoint
jwtVerify_Revoked(t, secret) ==
  IF t.structure # "jwt" THEN "JsonWebTokenError"
  ELSE IF t.sig # HS256(Payload(t), secret) THEN "JsonWebTokenError"
  ELSE IF \E s \in DOMAIN reqs :
            /\ reqs[s].kind = "logout"
            /\ reqs[s].header.present
            /\ reqs[s].header.token = t THEN "JsonWebTokenError"
  ELSE IF "nbf" \in DOMAIN t /\ t.nbf > now THEN "NotBeforeError"
  ELSE IF now >= t.exp THEN "TokenExpiredError"
  ELSE "ok"

\* jwt.verify(token, secret): the name of the error thrown, or "ok".
\* The structure is checked first, then the signature, then nbf, then exp.
jwtVerify(t, secret) ==
  IF t.structure # "jwt" THEN "JsonWebTokenError"
  ELSE IF t.sig # HS256(Payload(t), secret) THEN "JsonWebTokenError"
  ELSE IF "nbf" \in DOMAIN t /\ t.nbf > now THEN "NotBeforeError"
  ELSE IF now >= t.exp THEN "TokenExpiredError"
  ELSE "ok"

\* the tokens the server has sent in login responses
IssuedTokens ==
  { reqs[s].res.token : s \in { x \in Reqs : reqs[x].kind = "login" /\ reqs[x].res.status = 200 } }

\* what a client without the secret can make of a token it holds: sign it with
\* another key, or push its expiry forward and keep the signature
Resigned(t) == [t EXCEPT !.sig = HS256(Payload(t), OtherKey)]
Extended(t) == [t EXCEPT !.exp = t.exp + ExpiresIn]

\* tokens made without any issued token: not a JWT at all, and a JWT with a
\* not-before claim signed with another key
Garbage == [structure |-> "malformed"]
NotYet ==
  LET payload == [userId |-> 1, iat |-> 0, exp |-> MaxTime + ExpiresIn, nbf |-> MaxTime + 1]
  IN [ structure |-> "jwt", userId |-> 1, iat |-> 0, exp |-> MaxTime + ExpiresIn,
       nbf |-> MaxTime + 1, sig |-> HS256(payload, OtherKey) ]

ForgedTokens ==
  {Garbage, NotYet} \cup { Resigned(t) : t \in IssuedTokens }
                    \cup { Extended(t) : t \in IssuedTokens }

\* the Authorization headers a client can send
Headers ==
  {NoHeader, [present |-> TRUE, prefix |-> "", token |-> NoToken],
   [present |-> TRUE, prefix |-> "Bearer ", token |-> NoToken],
   [present |-> TRUE, prefix |-> "bearer ", token |-> Garbage]}
  \cup { [present |-> TRUE, prefix |-> "Bearer ", token |-> t] :
           t \in IssuedTokens \cup ForgedTokens }

\* a check for a missing header that lets the empty string through
Falsy_UndefinedOnly(h) == ~h.present

\* !authHeader: undefined or the empty string
Falsy(h) == ~h.present \/ (h.prefix = "" /\ h.token = NoToken)
\* authHeader.startsWith('Bearer ')
startsWithBearer(h) == h.prefix = "Bearer "
\* authHeader.substring(7)
substring7(h) == h.token

---------------------------------------------------------------------------
(* POST /api/auth/login: validateLogin, authController.login *)

InvalidCredentials == Json(401, FALSE, "Credenciales invalidas")
\* an answer that tells an unknown email from a wrong password
LoginUserNotFound_Distinct == Json(404, FALSE, "Usuario no encontrado")
LoginUserNotFound == InvalidCredentials
LoginBadPassword == InvalidCredentials

LoggedIn(token, user) ==
  [ status |-> 200, success |-> TRUE, message |-> "Login exitoso",
    token |-> token, user |-> toPublicJSON(user) ]

\* the request arrives; the validation chain runs; login checks
\* validationResult and calls User.findByEmail
LoginStart(r, b) ==
  /\ MayArrive(r)
  /\ LET q == [reqs[r] EXCEPT !.kind = "login", !.body = sanitize(b)]
         errors == validateLogin(b)
     IN IF errors # << >>
          THEN Finish(r, q, ValidationFailed(errors))
          ELSE reqs' = [reqs EXCEPT ![r] =
                 [q EXCEPT !.pc = "findByEmail", !.calls = << "findByEmail" >>]]
  /\ UNCHANGED << users, lastId, now, client, server >>

\* the SELECT of User.findByEmail runs; login answers 401 or awaits
\* user.verifyPassword
LoginFindByEmail(r) ==
  /\ reqs[r].kind = "login"
  /\ reqs[r].pc = "findByEmail"
  /\ LET user == findByEmail(reqs[r].body.email)
         q == [reqs[r] EXCEPT !.user = user]
     IN IF user = NoRow
          THEN Finish(r, q, LoginUserNotFound)
          ELSE reqs' = [reqs EXCEPT ![r] =
                 [q EXCEPT !.pc = "compare", !.calls = @ \o << "bcrypt.compare" >>]]
  /\ UNCHANGED << users, lastId, now, client, server >>

\* bcrypt.compare has resolved; login answers 401, or signs a token and
\* answers 200
LoginCompare(r) ==
  /\ reqs[r].kind = "login"
  /\ reqs[r].pc = "compare"
  /\ LET user == reqs[r].user
         isPasswordValid == bcryptCompare(reqs[r].body.password, user.password)
     IN IF ~isPasswordValid
          THEN Finish(r, reqs[r], LoginBadPassword)
          ELSE Finish(r, [reqs[r] EXCEPT !.calls = @ \o << "jwt.sign" >>],
                      LoggedIn(generateToken(user.id), user))
  /\ UNCHANGED << users, lastId, now, client, server >>

---------------------------------------------------------------------------
(* POST /api/auth/logout: authController.logout *)

\* a logout behind the checks of the gate: 401 without a bearer token
Logout_Gated(r, h) ==
  /\ MayArrive(r)
  /\ Finish(r, [reqs[r] EXCEPT !.kind = "logout", !.header = h],
            IF h.present /\ h.prefix = "Bearer " /\ h.token.structure = "jwt"
              THEN Json(200, TRUE, "Logout exitoso")
              ELSE Json(401, FALSE, "Token de acceso requerido"))
  /\ UNCHANGED << users, lastId, now, client, server >>

LoggedOut == Json(200, TRUE, "Logout exitoso")

Logout(r, h) ==
  /\ MayArrive(r)
  /\ Finish(r, [reqs[r] EXCEPT !.kind = "logout", !.header = h], LoggedOut)
  /\ UNCHANGED << users, lastId, now, client, server >>

---------------------------------------------------------------------------
(* authMiddleware, and the routes behind it: GET /profile and GET /verify *)

TokenRequired == Json(401, FALSE, "Token de acceso requerido")
BadFormat == Json(401, FALSE, "Formato de token invalido. Use: Bearer <token>")
TokenNotProvided == Json(401, FALSE, "Token no proporcionado")
TokenExpired == Json(401, FALSE, "Token expirado")
TokenInvalid == Json(401, FALSE, "Token invalido")
TokenVerifyError == Json(401, FALSE, "Error al verificar token")
\* the gate answering as getProfile does
GateUserNotFound_404 == Json(404, FALSE, "Usuario no encontrado")
GateUserNotFound == Json(401, FALSE, "Usuario no encontrado")

ProfileNotFound == Json(404, FALSE, "Usuario no encontrado")
ProfileOk(user) == [status |-> 200, success |-> TRUE, user |-> toPublicJSON(user)]
VerifyOk(user) ==
  [ status |-> 200, success |-> TRUE, message |-> "Token valido",
    user |-> toPublicJSON(user) ]

\* a gate with one answer for every error of jwt.verify
JwtErrorResponse_OneKind(name) == TokenInvalid

\* the gate's answer to the error jwt.verify threw
JwtErrorResponse(name) ==
  IF name = "TokenExpiredError" THEN TokenExpired
  ELSE IF name = "JsonWebTokenError" THEN TokenInvalid
  ELSE TokenVerifyError

\* the request arrives at a protected route; authMiddleware runs up to its
\* await of User.findById
GateStart(r, route, h) ==
  /\ MayArrive(r)
  /\ LET q == [reqs[r] EXCEPT !.kind = route, !.header = h]
         token == substring7(h)
     IN IF Falsy(h) THEN GateFinish(r, q, TokenRequired)
        ELSE IF ~startsWithBearer(h) THEN GateFinish(r, q, BadFormat)
        ELSE IF token = NoToken THEN GateFinish(r, q, TokenNotProvided)
        ELSE LET outcome == jwtVerify(token, JWT_SECRET)
                 v == [q EXCEPT !.calls = << "jwt.verify" >>]
             IN IF outcome # "ok"
                  THEN GateFinish(r, [v EXCEPT !.error = outcome], JwtErrorResponse(outcome))
                  ELSE reqs' = [reqs EXCEPT ![r] =
                         [v EXCEPT !.pc = "gateFindById",
                                   !.decoded = Payload(token),
                                   !.calls = @ \o << "findById" >>]]
  /\ UNCHANGED << users, lastId, now, client, server >>

\* the handler behind the gate, called by next() in the same turn:
\* /verify answers at once, getProfile awaits its own User.findById
RunHandler(r, q) ==
  IF q.kind = "verify"
    THEN Finish(r, q, VerifyOk(q.reqUser))
    ELSE reqs' = [reqs EXCEPT ![r] =
           [q EXCEPT !.pc = "profileFindById", !.calls = @ \o << "findById" >>]]

\* a gate that answers 401 for a user that is gone and goes on to next()
GateFindById_NoReturn(r) ==
  /\ reqs[r].pc = "gateFindById"
  /\ LET user == findById(reqs[r].decoded.userId)
     IN IF user = NoRow
          THEN GateFinish(r, [reqs[r] EXCEPT !.nextCalls = @ + 1], GateUserNotFound)
          ELSE RunHandler(r, [reqs[r] EXCEPT !.userId = reqs[r].decoded.userId,
                                             !.reqUser = user,
                                             !.nextCalls = @ + 1,
                                             !.handlerRan = TRUE])
  /\ UNCHANGED << users, lastId, now, client, server >>

\* the SELECT of the gate's User.findById runs; the gate answers 401, or
\* attaches the user and calls next()
GateFindById(r) ==
  /\ reqs[r].pc = "gateFindById"
  /\ LET user == findById(reqs[r].decoded.userId)
     IN IF user = NoRow
          THEN GateFinish(r, reqs[r], GateUserNotFound)
          ELSE RunHandler(r, [reqs[r] EXCEPT !.userId = reqs[r].decoded.userId,
                                             !.reqUser = user,
                                             !.nextCalls = @ + 1,
                                             !.handlerRan = TRUE])
  /\ UNCHANGED << users, lastId, now, client, server >>

\* a getProfile that answers with the user the gate attached to the request
ProfileFindById_Attached(r) ==
  /\ reqs[r].pc = "profileFindById"
  /\ LET user == reqs[r].reqUser
         q == [reqs[r] EXCEPT !.user = user]
     IN Finish(r, q, [status |-> 200, success |-> TRUE, user |-> toPublicJSON(user)])
  /\ UNCHANGED << users, lastId, now, client, server >>

\* the SELECT of getProfile's User.findById runs; getProfile answers
ProfileFindById(r) ==
  /\ reqs[r].pc = "profileFindById"
  /\ LET user == findById(reqs[r].userId)
         q == [reqs[r] EXCEPT !.user = user]
     IN IF user = NoRow
          THEN Finish(r, q, ProfileNotFound)
          ELSE Finish(r, q, ProfileOk(user))
  /\ UNCHANGED << users, lastId, now, client, server >>

---------------------------------------------------------------------------
(* app.js: the health route and the handler of unknown routes *)

\* the body's own status field is written bodyStatus: status is the HTTP status
HealthOk ==
  [ status |-> 200, message |-> "API funcionando correctamente",
    timestamp |-> toISOString(now), bodyStatus |-> "OK" ]

RouteNotFound == Json(404, FALSE, "Ruta no encontrada")

\* GET /api/health
Health(r) ==
  /\ MayArrive(r)
  /\ Finish(r, [reqs[r] EXCEPT !.kind = "health"], HealthOk)
  /\ UNCHANGED << users, lastId, now, client, server >>

\* app.use('*'): a request no route matches
NotFound(r) ==
  /\ MayArrive(r)
  /\ Finish(r, [reqs[r] EXCEPT !.kind = "unknown"], RouteNotFound)
  /\ UNCHANGED << users, lastId, now, client, server >>

---------------------------------------------------------------------------
(* Failures of the collaborators: a rejected db.get or db.run, a rejected   *)
(* bcrypt.hash or bcrypt.compare, a jwt.sign that throws                    *)

CallErrors == {"SQLITE_ERROR", "bcrypt error", "jwt.sign error"}

\* the error a call fails with
ErrorOf(call) ==
  CASE call \in {"findByEmail", "findById", "INSERT"} -> "SQLITE_ERROR"
    [] call \in {"bcrypt.hash", "bcrypt.compare"} -> "bcrypt error"
    [] call = "jwt.sign" -> "jwt.sign error"

\* register: User.findByEmail rejects, or bcrypt.hash or the INSERT of
\* User.create rejects; register's catch answers
RegisterFails(r, call) ==
  /\ reqs[r].kind = "register"
  /\ \/ reqs[r].pc = "findByEmail" /\ call = "findByEmail"
     \/ reqs[r].pc = "create" /\ call \in {"bcrypt.hash", "INSERT"}
  /\ Finish(r, [reqs[r] EXCEPT !.error = ErrorOf(call)], InternalError)
  /\ UNCHANGED << users, lastId, now, client, server >>

\* login: User.findByEmail rejects, bcrypt.compare rejects, or the password
\* is valid and jwt.sign throws; login's catch answers
LoginFails(r, call) ==
  /\ reqs[r].kind = "login"
  /\ \/ reqs[r].pc = "findByEmail" /\ call = "findByEmail"
     \/ reqs[r].pc = "compare" /\ call = "bcrypt.compare"
     \/ /\ reqs[r].pc = "compare" /\ call = "jwt.sign"
        /\ bcryptCompare(reqs[r].body.password, reqs[r].user.password)
  /\ Finish(r, [reqs[r] EXCEPT !.error = ErrorOf(call)], InternalError)
  /\ UNCHANGED << users, lastId, now, client, server >>

\* authMiddleware: User.findById rejects; the middleware's outer catch
\* answers and next() is not called
GateFails(r) ==
  /\ reqs[r].pc = "gateFindById"
  /\ GateFinish(r, [reqs[r] EXCEPT !.error = ErrorOf("findById")], InternalError)
  /\ UNCHANGED << users, lastId, now, client, server >>

\* a getProfile without a catch: the rejection leaves the request unanswered
ProfileFails_Uncaught(r) ==
  /\ reqs[r].pc = "profileFindById"
  /\ reqs' = [reqs EXCEPT ![r] = [@ EXCEPT !.error = ErrorOf("findById"),
                                           !.pc = "unhandledRejection"]]
  /\ UNCHANGED << users, lastId, now, client, server >>

\* getProfile: User.findById rejects; getProfile's catch answers
ProfileFails(r) ==
  /\ reqs[r].pc = "profileFindById"
  /\ Finish(r, [reqs[r] EXCEPT !.error = ErrorOf("findById")], InternalError)
  /\ UNCHANGED << users, lastId, now, client, server >>

---------------------------------------------------------------------------
(* optionalAuth: the gate that lets every request through *)

\* next(): the request is handed to the handler after the middleware
CallNext(r, q) ==
  reqs' = [reqs EXCEPT ![r] = [q EXCEPT !.pc = "next", !.nextCalls = @ + 1,
                                        !.handlerRan = TRUE]]

\* the request arrives; optionalAuth runs up to its await of User.findById,
\* or up to next() when the header is no bearer header or jwt.verify throws
OptionalStart(r, h) ==
  /\ MayArrive(r)
  /\ LET q == [reqs[r] EXCEPT !.kind = "optional", !.header = h]
         token == substring7(h)
     IN IF Falsy(h) \/ ~startsWithBearer(h) THEN CallNext(r, q)
        ELSE LET outcome == jwtVerify(token, JWT_SECRET)
                 v == [q EXCEPT !.calls = << "jwt.verify" >>]
             IN IF outcome # "ok"
                  THEN CallNext(r, [v EXCEPT !.error = outcome])
                  ELSE reqs' = [reqs EXCEPT ![r] =
                         [v EXCEPT !.pc = "optionalFindById",
                                   !.decoded = Payload(token),
                                   !.calls = @ \o << "findById" >>]]
  /\ UNCHANGED << users, lastId, now, client, server >>

\* an optional gate that answers 401 for an unknown subject, as authMiddleware
OptionalFindById_Rejecting(r) ==
  /\ reqs[r].pc = "optionalFindById"
  /\ LET user == findById(reqs[r].decoded.userId)
     IN IF user = NoRow
          THEN Finish(r, reqs[r], GateUserNotFound)
          ELSE CallNext(r, [reqs[r] EXCEPT !.userId = reqs[r].decoded.userId,
                                           !.reqUser = user])
  /\ UNCHANGED << users, lastId, now, client, server >>

\* the SELECT of User.findById runs; optionalAuth attaches the user when
\* there is one, and calls next()
OptionalFindById(r) ==
  /\ reqs[r].pc = "optionalFindById"
  /\ LET user == findById(reqs[r].decoded.userId)
     IN IF user = NoRow
          THEN CallNext(r, reqs[r])
          ELSE CallNext(r, [reqs[r] EXCEPT !.userId = reqs[r].decoded.userId,
                                           !.reqUser = user])
  /\ UNCHANGED << users, lastId, now, client, server >>

\* User.findById rejects: the inner catch logs the error, then next()
OptionalFails(r) ==
  /\ reqs[r].pc = "optionalFindById"
  /\ CallNext(r, [reqs[r] EXCEPT !.error = ErrorOf("findById")])
  /\ UNCHANGED << users, lastId, now, client, server >>

---------------------------------------------------------------------------
(* app.js: express.json() and the global error handler *)

\* the errors body-parser passes to next(err): a body that is not JSON, and a
\* body over the size limit
ParseError ==
  [ status  |-> 400,
    message |-> "Unexpected token } in JSON at position 1",
    stack   |-> "SyntaxError: Unexpected token } in JSON at position 1 at JSON.parse" ]
TooLarge ==
  [ status  |-> 413,
    message |-> "request entity too large",
    stack   |-> "PayloadTooLargeError: request entity too large at readStream" ]
PassedErrors == {ParseError, TooLarge}

\* an error handler that sends the stack in every environment
errorHandler_AlwaysStack(err) ==
  [ status  |-> IF err.status # 0 THEN err.status ELSE 500,
    success |-> FALSE,
    message |-> IF err.message # "" THEN err.message ELSE "Error interno del servidor",
    stack   |-> err.stack ]

\* app.use((err, req, res, next) => ...): the response of the error handler
errorHandler(err) ==
  IF server.NODE_ENV = "development"
    THEN [ status  |-> IF err.status # 0 THEN err.status ELSE 500,
           success |-> FALSE,
           message |-> IF err.message # "" THEN err.message ELSE "Error interno del servidor",
           stack   |-> err.stack ]
    ELSE [ status  |-> IF err.status # 0 THEN err.status ELSE 500,
           success |-> FALSE,
           message |-> IF err.message # "" THEN err.message ELSE "Error interno del servidor" ]

\* a POST whose body express.json() rejects: the route is not reached, the
\* error handler answers
BodyRejected(r, route, err) ==
  /\ MayArrive(r)
  /\ Finish(r, [reqs[r] EXCEPT !.kind = route, !.error = "body-parser error"],
            errorHandler(err))
  /\ UNCHANGED << users, lastId, now, client, server >>

---------------------------------------------------------------------------
(* app.js: startServer; config/database.js: the connection *)

\* the process before startServer() runs: let db = null
Booting ==
  [ NODE_ENV  |-> "production", db |-> "null", init |-> "not called",
    listening |-> FALSE, exitCode |-> -1, got |-> "nothing" ]

Alive == server.exitCode = -1

\* startServer() up to its await: initDatabase() assigns db the connection
\* object before the open has completed
StartServer ==
  /\ Alive /\ server.init = "not called"
  /\ server' = [server EXCEPT !.init = "pending", !.db = "opening"]
  /\ UNCHANGED << users, lastId, now, reqs, client >>

\* the open callback without an error: createTables() is issued
OpenSucceeds ==
  /\ Alive /\ server.init = "pending" /\ server.db = "opening"
  /\ server' = [server EXCEPT !.db = "open"]
  /\ UNCHANGED << users, lastId, now, reqs, client >>

\* the open callback with an error: reject(err); db keeps the connection object
OpenFails ==
  /\ Alive /\ server.init = "pending" /\ server.db = "opening"
  /\ server' = [server EXCEPT !.db = "failed", !.init = "rejected"]
  /\ UNCHANGED << users, lastId, now, reqs, client >>

\* createTables().then(() => resolve())
CreateTablesSucceeds ==
  /\ Alive /\ server.init = "pending" /\ server.db = "open"
  /\ server' = [server EXCEPT !.init = "resolved"]
  /\ UNCHANGED << users, lastId, now, reqs, client >>

\* createTables().catch(reject)
CreateTablesFails ==
  /\ Alive /\ server.init = "pending" /\ server.db = "open"
  /\ server' = [server EXCEPT !.init = "rejected"]
  /\ UNCHANGED << users, lastId, now, reqs, client >>

\* a startServer that listens without waiting for initDatabase
Listen_NoAwait ==
  /\ Alive /\ server.init \in {"pending", "resolved"} /\ ~server.listening
  /\ server' = [server EXCEPT !.listening = TRUE]
  /\ UNCHANGED << users, lastId, now, reqs, client >>

\* startServer() after its await: app.listen(PORT, ...)
Listen ==
  /\ Alive /\ server.init = "resolved" /\ ~server.listening
  /\ server' = [server EXCEPT !.listening = TRUE]
  /\ UNCHANGED << users, lastId, now, reqs, client >>

\* startServer()'s catch: process.exit(1)
StartServerCatch ==
  /\ Alive /\ server.init = "rejected"
  /\ server' = [server EXCEPT !.exitCode = 1, !.listening = FALSE]
  /\ UNCHANGED << users, lastId, now, reqs, client >>

\* SIGINT or SIGTERM: process.exit(0).  A rejection is caught in the turn of
\* the event loop that settled it, before a signal handler can run.
Signal ==
  /\ Alive /\ server.init # "rejected"
  /\ server' = [server EXCEPT !.exitCode = 0, !.listening = FALSE]
  /\ UNCHANGED << users, lastId, now, reqs, client >>

\* getDatabase(): throws when db is null, returns db otherwise
getDatabase(db) == IF db = "null" THEN "throws" ELSE "handle"

\* a module calls getDatabase()
GetDatabase ==
  /\ Alive
  /\ server' = [server EXCEPT !.got = getDatabase(server.db)]
  /\ server' # server
  /\ UNCHANGED << users, lastId, now, reqs, client >>

\* closeDatabase(): db.close(), and db keeps the closed connection object
CloseDatabase ==
  /\ Alive /\ server.db = "open" /\ server.init # "pending"
  /\ server' = [server EXCEPT !.db = "closed", !.got = "nothing"]
  /\ UNCHANGED << users, lastId, now, reqs, client >>

---------------------------------------------------------------------------
(* User.prototype.delete, called on a loaded user *)

DeleteUser(u) ==
  /\ u \in users
  /\ users' = { x \in users : x.id # u.id }
  /\ UNCHANGED << lastId, now, reqs, client, server >>

---------------------------------------------------------------------------
(* The clock *)

Tick ==
  /\ now + TickHours <= MaxTime
  /\ now' = now + TickHours
  /\ UNCHANGED << users, lastId, reqs, client, server >>

---------------------------------------------------------------------------

\* the browser before the page is opened: useState(null), useState(true),
\* useState(false) of AuthProvider, nothing in localStorage, no call made
SessionInit ==
  [ token           |-> NoToken,   \* localStorage's 'token'
    user            |-> NoRow,     \* user; NoRow stands for null
    isAuthenticated |-> FALSE,
    loading         |-> TRUE,
    location        |-> "/",       \* window.location.href
    mounted         |-> FALSE,     \* the effect of the first render has run
    unloading       |-> FALSE,     \* window.location.href was assigned
    strict          |-> FALSE,     \* a development build: React.StrictMode acts
    page            |-> "login",   \* the route shown: '/' leads to /login
    loginSubmitting    |-> FALSE,  \* LoginPage's isSubmitting
    registerSubmitting |-> FALSE,  \* RegisterPage's isSubmitting
    result          |-> [settled |-> FALSE],  \* what login or register returned last
    http            |-> << >> ]    \* the calls of apiClient, in the order sent

Init ==
  /\ users = {}
  /\ lastId = 0
  /\ now = 0
  /\ reqs = [r \in Reqs |-> IdleReq]
  /\ client = SessionInit
  /\ server = Running

LogoutHeaders == {NoHeader, [present |-> TRUE, prefix |-> "Bearer ", token |-> Garbage]}

Next ==
  \/ \E r \in Reqs, b \in RegisterBodies : RegisterStart(r, b)
  \/ \E r \in Reqs : RegisterFindByEmail(r)
  \/ \E r \in Reqs : RegisterCreate(r)
  \/ \E r \in Reqs, b \in LoginBodies : LoginStart(r, b)
  \/ \E r \in Reqs : LoginFindByEmail(r)
  \/ \E r \in Reqs : LoginCompare(r)
  \/ \E r \in Reqs, h \in LogoutHeaders : Logout(r, h)
  \/ \E r \in Reqs, route \in {"profile", "verify"}, h \in Headers : GateStart(r, route, h)
  \/ \E r \in Reqs : GateFindById(r)
  \/ \E r \in Reqs : ProfileFindById(r)
  \/ \E r \in Reqs : Health(r)
  \/ \E r \in Reqs : NotFound(r)
  \/ \E u \in users : DeleteUser(u)
  \/ Tick

\* the whole back end, from an empty table
Spec == Init /\ [][Next]_vars

(* The claims are checked on two parts of the system, each with the inputs  *)
(* its operations need.                                                     *)

\* the register, login and delete operations on the users table
AuthNext ==
  \/ \E r \in Reqs, b \in RegisterBodies : RegisterStart(r, b)
  \/ \E r \in Reqs : RegisterFindByEmail(r)
  \/ \E r \in Reqs : RegisterCreate(r)
  \/ \E r \in Reqs, b \in LoginBodies : LoginStart(r, b)
  \/ \E r \in Reqs : LoginFindByEmail(r)
  \/ \E r \in Reqs : LoginCompare(r)
  \/ \E u \in users : DeleteUser(u)
  \/ Tick

SpecAuth == Init /\ [][AuthNext]_vars

\* the database file outlives the process (CREATE TABLE IF NOT EXISTS): the
\* server may start on a table that holds a user registered by an earlier run
PersistedUser ==
  [ id         |-> 1,
    email      |-> "a@x.com",
    nombres    |-> "Ana",
    apellidos  |-> "Diaz",
    password   |-> bcryptHash("Abcdef12", SaltRounds, "salt1"),
    created_at |-> CURRENT_TIMESTAMP(0),
    updated_at |-> CURRENT_TIMESTAMP(0) ]

InitGate ==
  /\ users = {PersistedUser}
  /\ lastId = 1
  /\ now = 0
  /\ reqs = [r \in Reqs |-> IdleReq]
  /\ client = SessionInit
  /\ server = Running

GateLoginBodies == { [email |-> "a@x.com", password |-> "Abcdef12"] }

\* logins that issue tokens, and the requests to the protected routes
GateNext ==
  \/ \E r \in Reqs, b \in GateLoginBodies : LoginStart(r, b)
  \/ \E r \in Reqs : LoginFindByEmail(r)
  \/ \E r \in Reqs : LoginCompare(r)
  \/ \E r \in Reqs, route \in {"profile", "verify"}, h \in Headers : GateStart(r, route, h)
  \/ \E r \in Reqs : GateFindById(r)
  \/ \E r \in Reqs : ProfileFindById(r)
  \/ \E u \in users : DeleteUser(u)
  \/ Tick

SpecGate == InitGate /\ [][GateNext]_vars

---------------------------------------------------------------------------
(* User.prototype.update, called on a loaded user *)

UpdateNames == {"Ana Maria"}

\* the columns of the users table
Columns ==
  {"id", "email", "nombres", "apellidos", "password", "created_at", "updated_at"}

\* the keys of updateData that become assignments: every key but id
UpdateKeys(updateData) == (DOMAIN updateData) \ {"id"}

\* user.update(updateData): UPDATE users SET <key> = ?, ..., updated_at = ?
\* WHERE id = ?.  It throws when no key is left, the statement fails on a key
\* that is no column, and of two assignments to one column the last wins.
update(u, updateData) ==
  /\ u \in users
  /\ UpdateKeys(updateData) # {}
  /\ UpdateKeys(updateData) \subseteq Columns
  /\ users' = { IF x.id = u.id
                  THEN [ k \in DOMAIN x |->
                           IF k = "updated_at" THEN toISOString(now)
                           ELSE IF k \in UpdateKeys(updateData) THEN updateData[k]
                           ELSE x[k] ]
                  ELSE x : x \in users }
  /\ UNCHANGED << lastId, now, reqs, client, server >>

\* user.update({nombres})
UpdateUser(u, nombres) ==
  /\ update(u, [nombres |-> nombres])
  /\ users' # users

\* update data of callers: a new name, a key that is no assignment, and the
\* two timestamp columns
UpdateData ==
  { [nombres |-> "Ana Maria"],
    [id |-> 7, apellidos |-> "Diaz Gil"],
    [updated_at |-> CURRENT_TIMESTAMP(0)],
    [created_at |-> toISOString(TickHours)],
    [id |-> 7],
    [rol |-> "admin"] }

UpdateRegisterBodies ==
  { [email |-> "a@x.com", nombres |-> "Ana", apellidos |-> "Diaz", password |-> "Abcdef12"] }

\* rows are created by register and updated afterwards
UpdateNext ==
  \/ \E r \in Reqs, b \in UpdateRegisterBodies : RegisterStart(r, b)
  \/ \E r \in Reqs : RegisterFindByEmail(r)
  \/ \E r \in Reqs : RegisterCreate(r)
  \/ \E u \in users, d \in UpdateData : update(u, d)
  \/ Tick

SpecUpdate == Init /\ [][UpdateNext]_vars

---------------------------------------------------------------------------
(* Requests of a client that logged in before the first request modelled *)

\* generateToken(1) of a login answered at hour 0: tokens are stateless, the
\* server keeps no record of the ones it issued
EarlierToken ==
  LET payload == [userId |-> 1, iat |-> 0, exp |-> ExpiresIn]
  IN [ structure |-> "jwt", userId |-> 1, iat |-> 0, exp |-> ExpiresIn,
       sig |-> HS256(payload, JWT_SECRET) ]

SessionHeaders ==
  {NoHeader, [present |-> TRUE, prefix |-> "Bearer ", token |-> Garbage],
   [present |-> TRUE, prefix |-> "Bearer ", token |-> EarlierToken]}

\* GET /api/auth/profile while the user's row is updated and deleted
ProfileNext ==
  \/ \E r \in Reqs, h \in SessionHeaders : GateStart(r, "profile", h)
  \/ \E r \in Reqs : GateFindById(r)
  \/ \E r \in Reqs : ProfileFindById(r)
  \/ \E u \in users, n \in UpdateNames : UpdateUser(u, n)
  \/ \E u \in users : DeleteUser(u)
  \/ Tick

SpecProfile == InitGate /\ [][ProfileNext]_vars

FailRegisterBodies ==
  { [email |-> "a@x.com", nombres |-> "Ana", apellidos |-> "Diaz", password |-> "Abcdef12"] }
FailHeaders == { [present |-> TRUE, prefix |-> "Bearer ", token |-> EarlierToken] }

\* register, login and the profile route with collaborators that may fail
FailNext ==
  \/ \E r \in Reqs, b \in FailRegisterBodies : RegisterStart(r, b)
  \/ \E r \in Reqs : RegisterFindByEmail(r)
  \/ \E r \in Reqs : RegisterCreate(r)
  \/ \E r \in Reqs, c \in {"findByEmail", "bcrypt.hash", "INSERT"} : RegisterFails(r, c)
  \/ \E r \in Reqs, b \in GateLoginBodies : LoginStart(r, b)
  \/ \E r \in Reqs : LoginFindByEmail(r)
  \/ \E r \in Reqs : LoginCompare(r)
  \/ \E r \in Reqs, c \in {"findByEmail", "bcrypt.compare", "jwt.sign"} : LoginFails(r, c)
  \/ \E r \in Reqs, h \in FailHeaders : GateStart(r, "profile", h)
  \/ \E r \in Reqs : GateFindById(r)
  \/ \E r \in Reqs : GateFails(r)
  \/ \E r \in Reqs : ProfileFindById(r)
  \/ \E r \in Reqs : ProfileFails(r)
  \/ \E u \in users : DeleteUser(u)

SpecFail == InitGate /\ [][FailNext]_vars

\* every route that answers, with every way through the gate and with
\* collaborators that may fail
OnceNext ==
  \/ \E r \in Reqs, b \in FailRegisterBodies : RegisterStart(r, b)
  \/ \E r \in Reqs : RegisterFindByEmail(r)
  \/ \E r \in Reqs : RegisterCreate(r)
  \/ \E r \in Reqs : RegisterFails(r, "INSERT")
  \/ \E r \in Reqs, b \in GateLoginBodies : LoginStart(r, b)
  \/ \E r \in Reqs : LoginFindByEmail(r)
  \/ \E r \in Reqs : LoginCompare(r)
  \/ \E r \in Reqs : LoginFails(r, "jwt.sign")
  \/ \E r \in Reqs : GateFindById(r)
  \/ \E r \in Reqs : GateFails(r)
  \/ \E r \in Reqs : ProfileFindById(r)
  \/ \E r \in Reqs : ProfileFails(r)
  \/ \E u \in users : DeleteUser(u)
  \/ \E r \in Reqs : Logout(r, NoHeader)
  \/ \E r \in Reqs, h \in SessionHeaders : GateStart(r, "profile", h)
  \/ \E r \in Reqs, h \in FailHeaders : GateStart(r, "verify", h)

SpecOnce == InitGate /\ [][OnceNext]_vars

ValidateRegisterBodies ==
  { [email |-> e, nombres |-> n, apellidos |-> "Diaz", password |-> p] :
      e \in {"a@x.com", "not-an-email"}, n \in Names, p \in RegisterPasswords }
ValidateLoginBodies ==
  { [email |-> e, password |-> p] : e \in {"a@x.com", "not-an-email"}, p \in LoginPasswords }

\* register and login with bodies that break the rules of the validation
\* chains, one rule or several at a time
ValidateNext ==
  \/ \E r \in Reqs, b \in ValidateRegisterBodies : RegisterStart(r, b)
  \/ \E r \in Reqs : RegisterFindByEmail(r)
  \/ \E r \in Reqs : RegisterCreate(r)
  \/ \E r \in Reqs, b \in ValidateLoginBodies : LoginStart(r, b)
  \/ \E r \in Reqs : LoginFindByEmail(r)
  \/ \E r \in Reqs : LoginCompare(r)

SpecValidate == Init /\ [][ValidateNext]_vars

OptionalHeaders ==
  SessionHeaders
  \cup {[present |-> TRUE, prefix |-> "", token |-> NoToken],
        [present |-> TRUE, prefix |-> "Bearer ", token |-> NoToken],
        [present |-> TRUE, prefix |-> "bearer ", token |-> EarlierToken],
        [present |-> TRUE, prefix |-> "Bearer ", token |-> Resigned(EarlierToken)]}

\* requests to a route behind optionalAuth, while the user's row is deleted
\* and the clock runs
OptionalNext ==
  \/ \E r \in Reqs, h \in OptionalHeaders : OptionalStart(r, h)
  \/ \E r \in Reqs : OptionalFindById(r)
  \/ \E r \in Reqs : OptionalFails(r)
  \/ \E u \in users : DeleteUser(u)
  \/ Tick

SpecOptional == InitGate /\ [][OptionalNext]_vars

ResponseRegisterBodies ==
  { [email |-> "a@x.com", nombres |-> "Ana", apellidos |-> "Diaz", password |-> p] :
      p \in RegisterPasswords }
ResponseLoginBodies == { [email |-> "a@x.com", password |-> p] : p \in {"Abcdef12", "abc"} }
ResponseHeaders ==
  {NoHeader} \cup { [present |-> TRUE, prefix |-> "Bearer ", token |-> t] : t \in IssuedTokens }

\* the four routes that answer with a user object, from an empty table: a user
\* registers, logs in and presents the token
ResponseNext ==
  \/ \E r \in Reqs, b \in ResponseRegisterBodies : RegisterStart(r, b)
  \/ \E r \in Reqs : RegisterFindByEmail(r)
  \/ \E r \in Reqs : RegisterCreate(r)
  \/ \E r \in Reqs, b \in ResponseLoginBodies : LoginStart(r, b)
  \/ \E r \in Reqs : LoginFindByEmail(r)
  \/ \E r \in Reqs : LoginCompare(r)
  \/ \E r \in Reqs, route \in {"profile", "verify"}, h \in ResponseHeaders :
       GateStart(r, route, h)
  \/ \E r \in Reqs : GateFindById(r)
  \/ \E r \in Reqs : ProfileFindById(r)
  \/ \E u \in users : DeleteUser(u)

SpecResponses == Init /\ [][ResponseNext]_vars

\* the routes that take no body: logout, profile, verify, health and the
\* unknown routes, while the user's row is deleted and the clock runs
RoutesNext ==
  \/ \E r \in Reqs, h \in SessionHeaders : Logout(r, h)
  \/ \E r \in Reqs, route \in {"profile", "verify"}, h \in SessionHeaders :
       GateStart(r, route, h)
  \/ \E r \in Reqs : GateFindById(r)
  \/ \E r \in Reqs : ProfileFindById(r)
  \/ \E r \in Reqs : Health(r)
  \/ \E r \in Reqs : NotFound(r)
  \/ \E u \in users : DeleteUser(u)
  \/ Tick

SpecRoutes == InitGate /\ [][RoutesNext]_vars

---------------------------------------------------------------------------
(* The client: apiClient with its interceptors (services/authService.js)    *)
(* and AuthProvider (context/AuthContext).  A call of apiClient is sent in  *)
(* one step and answered in a later one; the answer is any response the     *)
(* server has for the route, or none (network error, or axios' timeout).    *)

NoAnswer == [status |-> -1]

\* the request interceptor: the Authorization header of a call
requestInterceptor(token) ==
  IF token # NoToken
    THEN [present |-> TRUE, prefix |-> "Bearer ", token |-> token]
    ELSE NoHeader

\* a response interceptor that leaves localStorage alone
responseInterceptor_Keep(c, res) ==
  IF res.status = 401
    THEN [c EXCEPT !.location = "/login", !.unloading = TRUE]
    ELSE c

\* the response interceptor: error.response?.status === 401
responseInterceptor(c, res) ==
  IF res.status = 401
    THEN [c EXCEPT !.token = NoToken, !.location = "/login", !.unloading = TRUE]
    ELSE c

\* axios resolves for a 2xx status and rejects for any other, or none
Resolves(res) == res.status >= 200 /\ res.status < 300

\* apiClient.post / apiClient.get: the call leaves with the header the
\* request interceptor gives it; body is the data posted and form the page
\* whose submission the call belongs to
SendFrom(c, op, body, form) ==
  [c EXCEPT !.http = Append(@, [ op     |-> op,
                                 header |-> requestInterceptor(c.token),
                                 body   |-> body,
                                 form   |-> form,
                                 res    |-> NoRes ])]

\* a call whose data the model leaves out
Send(c, op) == SendFrom(c, op, NoBody, "none")

\* the response of call i arrives and passes the response interceptor
Receive(c, i, res) == responseInterceptor([c EXCEPT !.http[i].res = res], res)

Pending(i, op) ==
  /\ i \in 1..Len(client.http)
  /\ client.http[i].op = op
  /\ client.http[i].res = NoRes

\* what the server answers on each route
LoginAnswers ==
  { LoggedIn(generateToken(PersistedUser.id), PersistedUser), InvalidCredentials,
    InternalError, NoAnswer }
ProfileAnswers ==
  { ProfileOk(PersistedUser), TokenExpired, ProfileNotFound, InternalError, NoAnswer }
LogoutAnswers == { LoggedOut, InternalError, NoAnswer }

\* checkAuthStatus, first called by the effect of the first render: without a
\* stored token it ends at once, with one it awaits authService.getProfile
checkAuthStatus(c) ==
  IF c.token = NoToken
    THEN [c EXCEPT !.mounted = TRUE, !.loading = FALSE]
    ELSE Send([c EXCEPT !.mounted = TRUE, !.loading = TRUE], "profile")

CheckAuthStatus ==
  /\ client.token = NoToken \/ Len(client.http) < MaxReqs
  /\ client' = checkAuthStatus(client)
  /\ client' # client
  /\ UNCHANGED << users, lastId, now, reqs, server >>

\* a check that leaves the token in localStorage when getProfile fails
CheckAuthStatusSettles_KeepToken(i, res) ==
  /\ Pending(i, "profile")
  /\ LET c == Receive(client, i, res)
     IN client' = IF Resolves(res)
                    THEN [c EXCEPT !.user = res.user, !.isAuthenticated = TRUE,
                                   !.loading = FALSE]
                    ELSE [c EXCEPT !.user = NoRow,
                                   !.isAuthenticated = FALSE, !.loading = FALSE]
  /\ UNCHANGED << users, lastId, now, reqs, server >>

\* the rest of checkAuthStatus, when getProfile has settled
CheckAuthStatusSettles(i, res) ==
  /\ Pending(i, "profile")
  /\ LET c == Receive(client, i, res)
     IN client' = IF Resolves(res)
                    THEN [c EXCEPT !.user = res.user, !.isAuthenticated = TRUE,
                                   !.loading = FALSE]
                    ELSE [c EXCEPT !.token = NoToken, !.user = NoRow,
                                   !.isAuthenticated = FALSE, !.loading = FALSE]
  /\ UNCHANGED << users, lastId, now, reqs, server >>

\* AuthProvider.login up to its await of authService.login
ClientLogin ==
  /\ client.mounted
  /\ Len(client.http) < MaxReqs
  /\ client' = Send([client EXCEPT !.loading = TRUE], "login")
  /\ UNCHANGED << users, lastId, now, reqs, server >>

\* the rest of AuthProvider.login, when authService.login has settled
ClientLoginSettles(i, res) ==
  /\ Pending(i, "login")
  /\ LET c == Receive(client, i, res)
     IN client' = IF Resolves(res)
                    THEN [c EXCEPT !.token = res.token, !.user = res.user,
                                   !.isAuthenticated = TRUE, !.loading = FALSE]
                    ELSE [c EXCEPT !.loading = FALSE]
  /\ UNCHANGED << users, lastId, now, reqs, server >>

\* AuthProvider.logout up to its await of authService.logout
ClientLogout ==
  /\ client.mounted
  /\ Len(client.http) < MaxReqs
  /\ client' = Send(client, "logout")
  /\ UNCHANGED << users, lastId, now, reqs, server >>

\* a logout that clears the session only when the server answered 2xx
ClientLogoutSettles_OnSuccess(i, res) ==
  /\ Pending(i, "logout")
  /\ LET c == Receive(client, i, res)
     IN client' = IF Resolves(res)
                    THEN [c EXCEPT !.token = NoToken, !.user = NoRow,
                                   !.isAuthenticated = FALSE]
                    ELSE c
  /\ UNCHANGED << users, lastId, now, reqs, server >>

\* the rest of AuthProvider.logout: authService.logout has settled (it
\* swallows the error of a failed call), and the finally block runs
ClientLogoutSettles(i, res) ==
  /\ Pending(i, "logout")
  /\ LET c == Receive(client, i, res)
     IN client' = [c EXCEPT !.token = NoToken, !.user = NoRow,
                            !.isAuthenticated = FALSE]
  /\ UNCHANGED << users, lastId, now, reqs, server >>

\* the page is opened with or without a token left in localStorage by an
\* earlier visit
InitClient ==
  /\ users = {PersistedUser}
  /\ lastId = 1
  /\ now = 0
  /\ reqs = [r \in Reqs |-> IdleReq]
  /\ client \in { [SessionInit EXCEPT !.token = t] : t \in {NoToken, EarlierToken} }
  /\ server = Running

ClientNext ==
  \/ CheckAuthStatus
  \/ \E i \in 1..MaxReqs, res \in ProfileAnswers : CheckAuthStatusSettles(i, res)
  \/ ClientLogin
  \/ \E i \in 1..MaxReqs, res \in LoginAnswers : ClientLoginSettles(i, res)
  \/ ClientLogout
  \/ \E i \in 1..MaxReqs, res \in LogoutAnswers : ClientLogoutSettles(i, res)
  \/ Tick

SpecClient == InitClient /\ [][ClientNext]_vars

\* the process runs in production or in development
InitErrors ==
  /\ users = {PersistedUser}
  /\ lastId = 1
  /\ now = 0
  /\ reqs = [r \in Reqs |-> IdleReq]
  /\ client = SessionInit
  /\ server \in { [Running EXCEPT !.NODE_ENV = e] : e \in {"production", "development"} }

\* requests that end in an error: a rejected body, and a failed call in
\* register, in the gate and in getProfile
ErrorsNext ==
  \/ \E r \in Reqs, route \in {"register", "login"}, err \in PassedErrors :
       BodyRejected(r, route, err)
  \/ \E r \in Reqs, b \in FailRegisterBodies : RegisterStart(r, b)
  \/ \E r \in Reqs : RegisterFindByEmail(r)
  \/ \E r \in Reqs : RegisterCreate(r)
  \/ \E r \in Reqs, c \in {"findByEmail", "bcrypt.hash", "INSERT"} : RegisterFails(r, c)
  \/ \E r \in Reqs, h \in FailHeaders : GateStart(r, "profile", h)
  \/ \E r \in Reqs : GateFindById(r)
  \/ \E r \in Reqs : GateFails(r)
  \/ \E r \in Reqs : ProfileFindById(r)
  \/ \E r \in Reqs : ProfileFails(r)
  \/ \E u \in users : DeleteUser(u)

SpecErrors == InitErrors /\ [][ErrorsNext]_vars

InitBoot ==
  /\ users = {}
  /\ lastId = 0
  /\ now = 0
  /\ reqs = [r \in Reqs |-> IdleReq]
  /\ client = SessionInit
  /\ server = Booting

\* the start of the process, and the requests it serves once it listens
StartupNext ==
  \/ StartServer
  \/ OpenSucceeds
  \/ OpenFails
  \/ CreateTablesSucceeds
  \/ CreateTablesFails
  \/ Listen
  \/ StartServerCatch
  \/ Signal
  \/ \E r \in Reqs : Health(r)
  \/ \E r \in Reqs : NotFound(r)
  \/ Tick

SpecStartup == InitBoot /\ [][StartupNext]_vars

\* the catch of startServer runs as soon as the rejection is delivered
SpecStartupFair == SpecStartup /\ WF_vars(StartServerCatch)

\* the database module used by the process and by scripts
DatabaseNext ==
  \/ StartupNext
  \/ GetDatabase
  \/ CloseDatabase

SpecDatabase == InitBoot /\ [][DatabaseNext]_vars

---------------------------------------------------------------------------
(* The pages: LoginPage, RegisterPage and DashboardPage call AuthProvider   *)
(* from their handlers.  Each page shows a spinner instead of its form or   *)
(* its button while loading is true; LoginPage and RegisterPage leave for   *)
(* the dashboard when isAuthenticated is true, and ProtectedRoute shows the *)
(* dashboard only then.                                                     *)

\* what login and register return to the page
Succeeded(user) == [settled |-> TRUE, success |-> TRUE, user |-> user]
Failed(res, default) ==
  [ settled |-> TRUE, success |-> FALSE,
    message |-> IF "message" \in DOMAIN res THEN res.message ELSE default ]

\* the data the forms post: validateForm has passed
PageLoginBodies == { [email |-> e, password |-> "Abcdef12"] : e \in ValidEmails }
PageRegisterBodies ==
  { [email |-> e, nombres |-> "Ana", apellidos |-> "Diaz", password |-> "Abcdef12"] :
      e \in ValidEmails }

\* what the server answers to POST /api/auth/register with body b
RegisterAnswers(b) ==
  { Registered([ id |-> PersistedUser.id + 1, email |-> normalizeEmail(b.email),
                 nombres |-> b.nombres, apellidos |-> b.apellidos,
                 created_at |-> toISOString(0) ]),
    EmailTaken, InternalError, NoAnswer }

\* the form of LoginPage (page "login") or RegisterPage (page "register") is
\* on the screen
FormShown(page) ==
  /\ client.mounted /\ ~client.unloading
  /\ client.page = page
  /\ ~client.loading /\ ~client.isAuthenticated

\* ProtectedRoute shows the dashboard, and DashboardPage its button
DashboardShown ==
  /\ client.mounted /\ ~client.unloading
  /\ client.page = "dashboard"
  /\ ~client.loading /\ client.isAuthenticated

\* the effect of the first render of AuthProvider; under React.StrictMode a
\* development build runs the effect a second time
Mount ==
  /\ ~client.mounted
  /\ client' = IF client.strict
                 THEN checkAuthStatus(checkAuthStatus(client))
                 ELSE checkAuthStatus(client)
  /\ Len(client'.http) <= MaxReqs
  /\ UNCHANGED << users, lastId, now, reqs, server >>

\* a page is unmounted: its isSubmitting is gone, and the calls of its
\* submission in flight belong to no page
Unmount(c, page) ==
  [c EXCEPT !.loginSubmitting = IF page = "login" THEN FALSE ELSE @,
            !.registerSubmitting = IF page = "register" THEN FALSE ELSE @,
            !.http = [i \in 1..Len(c.http) |->
                        IF c.http[i].form = page /\ c.http[i].res = NoRes
                          THEN [c.http[i] EXCEPT !.form = "unmounted " \o page]
                          ELSE c.http[i]]]

\* the effect of LoginPage and RegisterPage that leaves for the dashboard when
\* isAuthenticated is true, and the Navigate of ProtectedRoute to /login
Redirect ==
  /\ client.mounted /\ ~client.unloading
  /\ \/ /\ client.page \in {"login", "register"} /\ client.isAuthenticated
        /\ client' = [Unmount(client, client.page) EXCEPT !.page = "dashboard"]
     \/ /\ client.page = "dashboard" /\ ~client.loading /\ ~client.isAuthenticated
        /\ client' = [client EXCEPT !.page = "login"]
  /\ UNCHANGED << users, lastId, now, reqs, server >>

\* the Link of LoginPage to /register and of RegisterPage to /login
FollowLink ==
  /\ \/ /\ FormShown("login")
        /\ client' = [Unmount(client, "login") EXCEPT !.page = "register"]
     \/ /\ FormShown("register")
        /\ client' = [Unmount(client, "register") EXCEPT !.page = "login"]
  /\ UNCHANGED << users, lastId, now, reqs, server >>

\* a handleSubmit of LoginPage that does not look at isSubmitting, on a page
\* that shows its form while loading
LoginSubmit_Unguarded(b) ==
  /\ client.mounted /\ ~client.unloading
  /\ Len(client.http) < MaxReqs
  /\ client' = SendFrom([client EXCEPT !.loginSubmitting = TRUE, !.loading = TRUE],
                        "login", b, "login")
  /\ UNCHANGED << users, lastId, now, reqs, server >>

\* LoginPage.handleSubmit up to the await in AuthProvider.login
LoginSubmit(b) ==
  /\ FormShown("login")
  /\ ~client.loginSubmitting
  /\ Len(client.http) < MaxReqs
  /\ client' = SendFrom([client EXCEPT !.loginSubmitting = TRUE, !.loading = TRUE],
                        "login", b, "login")
  /\ UNCHANGED << users, lastId, now, reqs, server >>

\* the flag of the page whose submission a call belongs to is reset
Submitted(c, form) ==
  IF form = "login" THEN [c EXCEPT !.loginSubmitting = FALSE]
  ELSE IF form = "register" THEN [c EXCEPT !.registerSubmitting = FALSE]
  ELSE c

\* the rest of AuthProvider.login and of the handleSubmit (or the register)
\* that called it
LoginSettles(i, res) ==
  /\ Pending(i, "login")
  /\ LET c == Submitted(Receive(client, i, res), client.http[i].form)
     IN client' = IF Resolves(res)
                    THEN [c EXCEPT !.token = res.token, !.user = res.user,
                                   !.isAuthenticated = TRUE, !.loading = FALSE,
                                   !.result = Succeeded(res.user)]
                    ELSE [c EXCEPT !.loading = FALSE,
                                   !.result = Failed(res, "Error al iniciar sesion")]
  /\ UNCHANGED << users, lastId, now, reqs, server >>

\* RegisterPage.handleSubmit up to the await in AuthProvider.register
RegisterSubmit(b) ==
  /\ FormShown("register")
  /\ ~client.registerSubmitting
  /\ Len(client.http) < MaxReqs
  /\ client' = SendFrom([client EXCEPT !.registerSubmitting = TRUE, !.loading = TRUE],
                        "register", b, "register")
  /\ UNCHANGED << users, lastId, now, reqs, server >>

\* a register that returns the server's answer without logging in
RegisterSettles_NoLogin(i, res) ==
  /\ Pending(i, "register")
  /\ LET c == Submitted(Receive(client, i, res), client.http[i].form)
     IN client' = IF Resolves(res)
                    THEN [c EXCEPT !.loading = FALSE,
                                   !.result = Succeeded(res.user)]
                    ELSE [c EXCEPT !.loading = FALSE,
                                   !.result = Failed(res, "Error al registrar usuario")]
  /\ UNCHANGED << users, lastId, now, reqs, server >>

\* the rest of AuthProvider.register when authService.register has settled:
\* after a success it calls login with the email and the password it posted
RegisterSettles(i, res) ==
  /\ Pending(i, "register")
  /\ LET c == Receive(client, i, res)
         b == client.http[i].body
     IN IF Resolves(res) /\ res.success
          THEN /\ Len(client.http) < MaxReqs
               /\ client' = SendFrom([c EXCEPT !.loading = TRUE], "login",
                                     [email |-> b.email, password |-> b.password],
                                     client.http[i].form)
          ELSE client' = [Submitted(c, client.http[i].form) EXCEPT
                            !.loading = FALSE,
                            !.result = Failed(res, "Error al registrar usuario")]
  /\ UNCHANGED << users, lastId, now, reqs, server >>

\* DashboardPage.handleLogout up to the await in AuthProvider.logout
HandleLogout ==
  /\ DashboardShown
  /\ ClientLogout

\* a call the page was unloaded with
Aborted == [status |-> -2]

\* the navigation started by window.location.href = '/login': the page is
\* loaded anew, localStorage is kept and the calls in flight are dropped
Reload ==
  /\ client.unloading
  /\ client' = [SessionInit EXCEPT
                  !.token = client.token,
                  !.strict = client.strict,
                  !.location = client.location,
                  !.http = [i \in 1..Len(client.http) |->
                              IF client.http[i].res = NoRes
                                THEN [client.http[i] EXCEPT !.res = Aborted]
                                ELSE client.http[i]]]
  /\ UNCHANGED << users, lastId, now, reqs, server >>

PagesNext ==
  \/ Mount
  \/ \E i \in 1..MaxReqs, res \in ProfileAnswers : CheckAuthStatusSettles(i, res)
  \/ \E b \in PageLoginBodies : LoginSubmit(b)
  \/ \E i \in 1..MaxReqs, res \in LoginAnswers : LoginSettles(i, res)
  \/ \E b \in PageRegisterBodies : RegisterSubmit(b)
  \/ \E i \in { j \in 1..Len(client.http) : client.http[j].op = "register" } :
       \E res \in RegisterAnswers(client.http[i].body) : RegisterSettles(i, res)
  \/ HandleLogout
  \/ \E i \in 1..MaxReqs, res \in LogoutAnswers : ClientLogoutSettles(i, res)
  \/ Redirect
  \/ FollowLink
  \/ Reload

\* the page is opened, in a production or in a development build, with or
\* without a token left in localStorage by an earlier visit
InitPages ==
  /\ users = {PersistedUser}
  /\ lastId = 1
  /\ now = 0
  /\ reqs = [r \in Reqs |-> IdleReq]
  /\ client \in { [SessionInit EXCEPT !.token = t, !.strict = d] :
                     t \in {NoToken, EarlierToken}, d \in BOOLEAN }
  /\ server = Running

SpecPages == InitPages /\ [][PagesNext]_vars

---------------------------------------------------------------------------
(* Properties of register and login, under SpecAuth *)

Done(r) == reqs[r].pc = "done"
IsRegister(r) == reqs[r].kind = "register"
IsLogin(r) == reqs[r].kind = "login"
RowsWithEmail(rows, email) == { u \in rows : u.email = email }

\* C1: a register request whose INSERT is rejected by the UNIQUE constraint
\* (it passed the findByEmail check, and a concurrent request for the same
\* email inserted first) is answered like one rejected by the check: 409,
\* 'El email ya esta registrado'.
C1_InsertConflictIs409 ==
  \A r \in Reqs :
    (IsRegister(r) /\ Done(r) /\ reqs[r].error = "SQLITE_CONSTRAINT")
      => /\ reqs[r].res.status = 409
         /\ reqs[r].res.message = "El email ya esta registrado"

\* C2: in every reachable state the users table holds at most one row per
\* email, whatever the interleaving of the register requests.
C2_OneRowPerEmail ==
  \A u \in users : \A v \in users : (u.email = v.email) => (u = v)

\* two requests for one email both passed the check, one inserted, the other's
\* INSERT was rejected, and the table holds one row for the email
C2_Witness ==
  \E r1 \in Reqs : \E r2 \in Reqs :
    /\ IsRegister(r1) /\ Done(r1) /\ reqs[r1].res.status = 201
    /\ IsRegister(r2) /\ Done(r2) /\ reqs[r2].error = "SQLITE_CONSTRAINT"
    /\ reqs[r1].body.email = reqs[r2].body.email
    /\ Cardinality(RowsWithEmail(users, reqs[r1].body.email)) = 1

\* C3: when register looks up an email that has a row, it answers 409, and
\* the step inserts nothing and changes nothing: the table still holds
\* exactly that one row for the email, with its id and created_at.
C3_DuplicateStep ==
  \A r \in Reqs :
    ( /\ IsRegister(r) /\ reqs[r].pc = "findByEmail"
      /\ reqs'[r] # reqs[r]
      /\ RowsWithEmail(users, reqs[r].body.email) # {} )
    => /\ reqs'[r].pc = "done"
       /\ reqs'[r].res.status = 409
       /\ reqs'[r].res.success = FALSE
       /\ users' = users
       /\ lastId' = lastId
       /\ Cardinality(RowsWithEmail(users', reqs[r].body.email)) = 1

C3_DuplicateRejected == [][C3_DuplicateStep]_vars

\* a second register for a registered email was answered 409 and the row the
\* first one created is still there, as the first one's response describes it
C3_Witness ==
  \E r1 \in Reqs : \E r2 \in Reqs :
    /\ IsRegister(r1) /\ Done(r1) /\ reqs[r1].res.status = 201
    /\ IsRegister(r2) /\ Done(r2) /\ reqs[r2].res.status = 409
    /\ reqs[r2].user \in users
    /\ reqs[r2].user.id = reqs[r1].res.user.id
    /\ reqs[r2].user.created_at.t = reqs[r1].res.user.created_at.t

\* C4: register with a valid body, finding no row for the email when it looks
\* it up and when it inserts, answers 201 and inserts the row; and a login
\* with the email and password of a register answered 201, looking the email
\* up while that row is in the table, answers 200 with a token and the user
\* whose id register returned.
C4_RegisterStep ==
  \A r \in Reqs :
    ( /\ IsRegister(r) /\ reqs'[r] # reqs[r]
      /\ RowsWithEmail(users, reqs[r].body.email) = {} )
    => /\ reqs[r].pc = "findByEmail" => reqs'[r].pc = "create"
       /\ reqs[r].pc = "create" =>
            /\ reqs'[r].pc = "done"
            /\ reqs'[r].res.status = 201
            /\ reqs'[r].res.success = TRUE
            /\ reqs'[r].res.user.email = reqs[r].body.email
            /\ \E u \in users' \ users : u.id = reqs'[r].res.user.id

C4_LoginStep ==
  \A g \in Reqs : \A l \in Reqs :
    ( /\ IsRegister(g) /\ Done(g) /\ reqs[g].res.status = 201
      /\ IsLogin(l) /\ reqs'[l] # reqs[l]
      /\ reqs[l].body.email = reqs[g].body.email
      /\ reqs[l].body.password = reqs[g].body.password )
    => /\ ( /\ reqs[l].pc = "findByEmail"
            /\ \E u \in users : u.id = reqs[g].res.user.id )
          => /\ reqs'[l].pc = "compare"
             /\ reqs'[l].user.id = reqs[g].res.user.id
       /\ ( /\ reqs[l].pc = "compare"
            /\ reqs[l].user.id = reqs[g].res.user.id )
          => /\ reqs'[l].pc = "done"
             /\ reqs'[l].res.status = 200
             /\ reqs'[l].res.success = TRUE
             /\ reqs'[l].res.token.structure = "jwt"
             /\ reqs'[l].res.token.userId = reqs[g].res.user.id
             /\ reqs'[l].res.user.id = reqs[g].res.user.id

C4_RegisterThenLogin == [][C4_RegisterStep /\ C4_LoginStep]_vars

\* a register was answered 201 and a login with its email and password was
\* answered 200 with the same user id
C4_Witness ==
  \E g \in Reqs : \E l \in Reqs :
    /\ IsRegister(g) /\ Done(g) /\ reqs[g].res.status = 201
    /\ IsLogin(l) /\ Done(l) /\ reqs[l].res.status = 200
    /\ reqs[l].body.email = reqs[g].body.email
    /\ reqs[l].body.password = reqs[g].body.password
    /\ reqs[l].res.user.id = reqs[g].res.user.id

\* a login that passed validation and found a row, with a password that is
\* not the row's
WrongPasswordLogin(r) ==
  /\ IsLogin(r) /\ Done(r)
  /\ reqs[r].user # NoRow
  /\ reqs[r].body.password # reqs[r].user.password.plain

\* a login that passed validation and found no row for the email
UnknownEmailLogin(r) ==
  /\ IsLogin(r) /\ Done(r)
  /\ reqs[r].calls # << >>
  /\ reqs[r].user = NoRow

\* C5: a login with a registered email and a wrong password and a login with
\* an email that has no row get the same response: 401, the same success flag
\* and the same message.
C5_SameFailure ==
  \A r1 \in Reqs : \A r2 \in Reqs :
    (WrongPasswordLogin(r1) /\ UnknownEmailLogin(r2))
      => /\ reqs[r1].res = reqs[r2].res
         /\ reqs[r1].res.status = 401
         /\ reqs[r2].res.status = 401
         /\ DOMAIN reqs[r1].res = {"status", "success", "message"}

C5_Witness ==
  \E r1 \in Reqs : \E r2 \in Reqs : WrongPasswordLogin(r1) /\ UnknownEmailLogin(r2)

---------------------------------------------------------------------------
(* Properties of the gate, under SpecGate *)

IsGated(r) == reqs[r].kind \in {"profile", "verify"}
Arrives(r) == reqs[r].kind = "idle" /\ reqs'[r].kind # "idle"
BearerToken(h) == h.present /\ h.prefix = "Bearer " /\ h.token # NoToken
SignedByServer(t) == t.structure = "jwt" /\ t.sig = HS256(Payload(t), JWT_SECRET)

\* C6: the gate passes a request on to its lookup only with a 'Bearer '
\* header whose token is signed with the secret and unexpired; the handler
\* behind the gate starts only from that lookup, when it found the token's
\* subject in the table, and then req.user is that row and req.userId the
\* token's subject; and only a request whose handler ran gets the handler's
\* answers.
C6_GateStep ==
  \A r \in Reqs :
    /\ (reqs'[r].pc = "gateFindById" /\ reqs[r].pc # "gateFindById")
         => /\ IsGated(r)'
            /\ reqs'[r].header.present
            /\ reqs'[r].header.prefix = "Bearer "
            /\ SignedByServer(reqs'[r].header.token)
            /\ now < reqs'[r].header.token.exp
            /\ reqs'[r].decoded.userId = reqs'[r].header.token.userId
    /\ (reqs'[r].handlerRan /\ ~reqs[r].handlerRan)
         => /\ reqs[r].pc = "gateFindById"
            /\ reqs'[r].userId = reqs[r].header.token.userId
            /\ reqs'[r].reqUser \in users
            /\ reqs'[r].reqUser.id = reqs[r].header.token.userId
    /\ (IsGated(r)' /\ (reqs'[r].pc = "profileFindById" \/ reqs'[r].res.status \in {200, 404}))
         => reqs'[r].handlerRan

C6_HandlerOnlyBehindGate == [][C6_GateStep]_vars

\* both protected handlers ran and answered 200 with the user of the token
C6_Witness ==
  \E r1 \in Reqs : \E r2 \in Reqs :
    /\ reqs[r1].kind = "profile" /\ reqs[r1].handlerRan /\ reqs[r1].res.status = 200
    /\ reqs[r2].kind = "verify" /\ reqs[r2].handlerRan /\ reqs[r2].res.status = 200
    /\ reqs[r1].res.user.id = reqs[r1].header.token.userId

\* the two early rejections of the gate
MissingCredential(r) ==
  /\ reqs[r].res.status = 401
  /\ reqs[r].res.message = "Token de acceso requerido"
MalformedCredential(r) ==
  /\ reqs[r].res.status = 401
  /\ reqs[r].res.message = "Formato de token invalido. Use: Bearer <token>"
NothingConsulted(r) == Done(r) /\ reqs[r].calls = << >> /\ ~reqs[r].handlerRan
EmptyHeader(h) == h.present /\ h.prefix = "" /\ h.token = NoToken

\* C7 as claimed: no header is rejected 401 'missing credential', and a header
\* that is present and does not start with 'Bearer ' is rejected 401 'malformed
\* credential'; in both cases nothing is consulted and the handler is not run.
C7_AsClaimed ==
  \A r \in Reqs :
    IsGated(r) =>
      /\ ~reqs[r].header.present => (MissingCredential(r) /\ NothingConsulted(r))
      /\ (reqs[r].header.present /\ reqs[r].header.prefix # "Bearer ")
           => (MalformedCredential(r) /\ NothingConsulted(r))

\* C7 as amended: no header or an empty header value is rejected 401 'missing
\* credential', and a non-empty header that does not start with 'Bearer ' is
\* rejected 401 'malformed credential'; in both cases nothing is consulted and
\* the handler is not run.
C7_HeaderChecks ==
  \A r \in Reqs :
    IsGated(r) =>
      /\ (~reqs[r].header.present \/ EmptyHeader(reqs[r].header))
           => (MissingCredential(r) /\ NothingConsulted(r))
      /\ ( /\ reqs[r].header.present /\ ~EmptyHeader(reqs[r].header)
           /\ reqs[r].header.prefix # "Bearer " )
           => (MalformedCredential(r) /\ NothingConsulted(r))

\* the three cases happened: no header, an empty header, a header with
\* another prefix
C7_Witness ==
  \E r1 \in Reqs : \E r2 \in Reqs : \E r3 \in Reqs :
    /\ IsGated(r1) /\ ~reqs[r1].header.present /\ MissingCredential(r1)
    /\ IsGated(r2) /\ EmptyHeader(reqs[r2].header) /\ MissingCredential(r2)
    /\ IsGated(r3) /\ reqs[r3].header.present /\ reqs[r3].header.prefix = "bearer "
    /\ MalformedCredential(r3)

\* C8: a token login issued lives 24 hours and names the user login answered
\* with; a request that brings it to the gate before its expiry passes
\* verification with that user's id, and one that brings it after its expiry
\* is rejected 401 'Token expirado'.
C8_IssuedTokens ==
  \A l \in Reqs :
    (IsLogin(l) /\ reqs[l].res.status = 200)
      => /\ reqs[l].res.token.exp = reqs[l].res.token.iat + 24
         /\ reqs[l].res.token.userId = reqs[l].res.user.id

C8_ArrivalStep ==
  \A r \in Reqs : \A l \in Reqs :
    ( /\ Arrives(r) /\ IsGated(r)'
      /\ IsLogin(l) /\ reqs[l].res.status = 200
      /\ BearerToken(reqs'[r].header)
      /\ reqs'[r].header.token = reqs[l].res.token )
    => /\ now < reqs[l].res.token.exp
            => /\ reqs'[r].pc = "gateFindById"
               /\ reqs'[r].decoded.userId = reqs[l].res.user.id
       /\ now > reqs[l].res.token.exp
            => /\ reqs'[r].pc = "done"
               /\ reqs'[r].res.status = 401
               /\ reqs'[r].res.message = "Token expirado"
               /\ ~reqs'[r].handlerRan

C8_TokenLifetime == [][C8_IssuedTokens /\ C8_ArrivalStep]_vars

\* a token of a login was admitted by the gate, and later, after its expiry,
\* rejected as expired
C8_Witness ==
  \E l \in Reqs : \E r1 \in Reqs : \E r2 \in Reqs :
    /\ IsLogin(l) /\ reqs[l].res.status = 200
    /\ IsGated(r1) /\ reqs[r1].handlerRan
    /\ reqs[r1].header.token = reqs[l].res.token
    /\ IsGated(r2) /\ BearerToken(reqs[r2].header)
    /\ reqs[r2].header.token = reqs[l].res.token
    /\ reqs[r2].res.status = 401
    /\ reqs[r2].res.message = "Token expirado"
    /\ now > reqs[l].res.token.exp

C10_GoneStep ==
  \A r \in Reqs :
    ( /\ reqs[r].pc = "gateFindById" /\ reqs'[r] # reqs[r]
      /\ \A u \in users : u.id # reqs[r].header.token.userId )
    => /\ reqs'[r].pc = "done"
       /\ reqs'[r].res.status = 401
       /\ reqs'[r].res.success = FALSE
       /\ ~reqs'[r].handlerRan
       /\ reqs'[r].reqUser = NoRow

C10_DeletedSubjectRejected == [][C10_GoneStep]_vars

\* an unexpired token of a login was rejected because its user had been deleted
C10_Witness ==
  \E r \in Reqs :
    /\ IsGated(r) /\ Done(r) /\ BearerToken(reqs[r].header)
    /\ reqs[r].header.token \in IssuedTokens
    /\ now < reqs[r].header.token.exp
    /\ reqs[r].calls = << "jwt.verify", "findById" >>
    /\ reqs[r].res.status = 401
    /\ reqs[r].res.message = "Usuario no encontrado"
    /\ ~reqs[r].handlerRan

---------------------------------------------------------------------------
(* Properties of getProfile, under SpecProfile *)

\* C11: getProfile looks the subject up again by id.  When its lookup runs
\* and the table holds no row with the id (the row was deleted after the
\* gate's lookup), it answers 404 'Usuario no encontrado' with no user; when
\* the table holds the row, it answers with the projection of the row as the
\* table holds it now, not as the gate attached it.
C11_ProfileStep ==
  \A r \in Reqs :
    (reqs[r].pc = "profileFindById" /\ reqs'[r] # reqs[r])
    => /\ reqs'[r].pc = "done"
       /\ (\A u \in users : u.id # reqs[r].userId)
            => /\ reqs'[r].res = Json(404, FALSE, "Usuario no encontrado")
               /\ "user" \notin DOMAIN reqs'[r].res
       /\ \A u \in users :
            (u.id = reqs[r].userId)
              => /\ reqs'[r].res.status = 200
                 /\ reqs'[r].res.user = toPublicJSON(u)

C11_ProfileRefetches == [][C11_ProfileStep]_vars

\* the gate attached the row to two requests; the row was updated before the
\* lookup of one, which answered with the updated row, and deleted before the
\* lookup of the other, which answered 404
C11_Witness ==
  \E r1 \in Reqs : \E r2 \in Reqs :
    /\ reqs[r1].kind = "profile" /\ Done(r1) /\ reqs[r1].handlerRan
    /\ reqs[r1].reqUser # NoRow
    /\ reqs[r1].res.status = 200
    /\ reqs[r1].res.user # toPublicJSON(reqs[r1].reqUser)
    /\ reqs[r2].kind = "profile" /\ Done(r2) /\ reqs[r2].handlerRan
    /\ reqs[r2].reqUser # NoRow
    /\ reqs[r2].res.status = 404
    /\ reqs[r2].res.message = "Usuario no encontrado"

---------------------------------------------------------------------------
(* Properties of logout, under SpecRoutes *)

IsLogout(r) == reqs[r].kind = "logout"

\* request a was admitted by the gate with header h, and the logout request s,
\* which arrived after a, has been answered
AdmittedThenLogout(a, s, h) ==
  /\ a < s
  /\ IsGated(a) /\ reqs[a].handlerRan /\ reqs[a].header = h
  /\ IsLogout(s) /\ Done(s)

\* C12: logout invalidates no token.  When a request arrives at the gate with
\* a token the gate admitted before a logout call that has been answered, and
\* the token's expiry is not reached, the gate verifies it and goes on to its
\* lookup; and when that lookup finds the subject's row, the gate attaches it
\* and runs the handler.
C12_AfterLogoutStep ==
  \A r \in Reqs : \A a \in Reqs : \A s \in Reqs :
    /\ ( /\ Arrives(r) /\ IsGated(r)'
         /\ BearerToken(reqs'[r].header)
         /\ AdmittedThenLogout(a, s, reqs'[r].header)
         /\ now < reqs'[r].header.token.exp )
       => /\ reqs'[r].pc = "gateFindById"
          /\ reqs'[r].decoded.userId = reqs'[r].header.token.userId
    /\ ( /\ reqs[r].pc = "gateFindById" /\ reqs'[r] # reqs[r]
         /\ AdmittedThenLogout(a, s, reqs[r].header)
         /\ \E u \in users : u.id = reqs[r].decoded.userId )
       => /\ reqs'[r].handlerRan
          /\ reqs'[r].reqUser \in users
          /\ reqs'[r].res.status # 401

C12_LogoutInvalidatesNothing == [][C12_AfterLogoutStep]_vars

\* a token was admitted, then presented to logout, then admitted again
C12_Witness ==
  \E a \in Reqs : \E s \in Reqs : \E r \in Reqs :
    /\ s < r
    /\ BearerToken(reqs[r].header)
    /\ AdmittedThenLogout(a, s, reqs[r].header)
    /\ reqs[s].header = reqs[r].header
    /\ IsGated(r) /\ Done(r) /\ reqs[r].handlerRan
    /\ reqs[r].res.status = 200

\* C13: the logout endpoint answers every request 200, success, 'Logout
\* exitoso', whatever its Authorization header, and the step changes neither
\* the users table, nor the id sequence, nor any other request.
C13_LogoutStep ==
  \A r \in Reqs :
    (Arrives(r) /\ IsLogout(r)')
    => /\ reqs'[r].pc = "done"
       /\ reqs'[r].res = Json(200, TRUE, "Logout exitoso")
       /\ reqs'[r].calls = << >>
       /\ users' = users
       /\ lastId' = lastId
       /\ now' = now
       /\ \A s \in Reqs : (s # r) => (reqs'[s] = reqs[s])

C13_LogoutAlwaysSucceeds == [][C13_LogoutStep]_vars

\* logout was answered 200 without a header, with a token that is no JWT, and
\* with a server-signed token that had expired
C13_Witness ==
  \E r1 \in Reqs : \E r2 \in Reqs : \E r3 \in Reqs :
    /\ IsLogout(r1) /\ Done(r1) /\ ~reqs[r1].header.present
    /\ reqs[r1].res.status = 200
    /\ IsLogout(r2) /\ Done(r2) /\ BearerToken(reqs[r2].header)
    /\ reqs[r2].header.token = Garbage
    /\ reqs[r2].res.status = 200
    /\ IsLogout(r3) /\ Done(r3) /\ BearerToken(reqs[r3].header)
    /\ SignedByServer(reqs[r3].header.token)
    /\ now >= reqs[r3].header.token.exp
    /\ reqs[r3].res.status = 200

---------------------------------------------------------------------------
(* Properties of the responses with a user object, under SpecResponses *)

PublicFields == {"id", "email", "nombres", "apellidos", "created_at", "updated_at"}
BodyFields == {"status", "success", "message", "errors", "token", "user",
               "timestamp", "bodyStatus"}

\* the texts of a response: its message, its validation messages, and the
\* text fields of its user object
Texts(res) ==
  (IF "message" \in DOMAIN res THEN {res.message} ELSE {})
  \cup (IF "errors" \in DOMAIN res
          THEN { res.errors[i] : i \in 1..Len(res.errors) } ELSE {})
  \cup (IF "user" \in DOMAIN res
          THEN { res.user[f] : f \in (DOMAIN res.user) \cap {"email", "nombres", "apellidos"} }
          ELSE {})

\* C14: no response holds a password.  A response has no field besides those
\* of the envelope, its user object has no field besides id, email, nombres,
\* apellidos, created_at and updated_at (so no stored hash), none of its texts
\* is the password the request submitted, and a token's payload is the user id
\* with iat and exp.
C14_NoPasswordInResponses ==
  \A r \in Reqs :
    LET res == reqs[r].res
    IN /\ DOMAIN res \subseteq BodyFields
       /\ ("user" \in DOMAIN res) => (DOMAIN res.user \subseteq PublicFields)
       /\ (reqs[r].kind \in {"register", "login"}) => (reqs[r].body.password \notin Texts(res))
       /\ ("token" \in DOMAIN res)
            => (DOMAIN Payload(res.token) = {"userId", "iat", "exp"})

\* register, login and a route behind the gate each answered with the user
\* object of a stored row that holds a password hash
C14_Witness ==
  \E r1 \in Reqs : \E r2 \in Reqs : \E r3 \in Reqs :
    /\ IsRegister(r1) /\ reqs[r1].res.status = 201
    /\ IsLogin(r2) /\ reqs[r2].res.status = 200
    /\ IsGated(r3) /\ reqs[r3].res.status = 200
    /\ \E u \in users :
         /\ u.password.plain = reqs[r1].body.password
         /\ reqs[r1].res.user.id = u.id
         /\ reqs[r2].res.user = toPublicJSON(u)
         /\ reqs[r3].res.user = toPublicJSON(u)

---------------------------------------------------------------------------
(* Properties of the handlers' catch blocks, under SpecFail *)

\* C15: a request in which a store, hashing or signing call failed (the
\* rejected INSERT of a duplicate included) is answered, and its answer is
\* 500 with success false and the one message 'Error interno del servidor':
\* no other field, nothing of the error.
C15_FailuresAnswered500 ==
  \A r \in Reqs :
    (reqs[r].error \in CallErrors \cup {"SQLITE_CONSTRAINT"})
    => /\ Done(r)
       /\ reqs[r].res = Json(500, FALSE, "Error interno del servidor")
       /\ reqs[r].res.message # reqs[r].error

\* a failed INSERT in register, a failed jwt.sign in login and a failed
\* lookup in getProfile, behind the gate, were each answered 500
C15_Witness ==
  \E r1 \in Reqs : \E r2 \in Reqs : \E r3 \in Reqs :
    /\ IsRegister(r1) /\ reqs[r1].pc = "done" /\ reqs[r1].error = "SQLITE_ERROR"
    /\ reqs[r1].calls = << "findByEmail", "bcrypt.hash" >>
    /\ reqs[r1].res.status = 500
    /\ IsLogin(r2) /\ reqs[r2].error = "jwt.sign error"
    /\ reqs[r2].res.status = 500
    /\ reqs[r3].kind = "profile" /\ reqs[r3].handlerRan
    /\ reqs[r3].error = "SQLITE_ERROR"
    /\ reqs[r3].res.status = 500

---------------------------------------------------------------------------
(* Properties of the validation of register and login, under SpecValidate *)

\* the rules of validateRegister a body violates (the email's and the names'
\* upper lengths are not reached by the bodies of the model)
ViolatedRegisterRules(b) ==
  { rule \in { "email.isEmail", "nombres.notEmpty", "nombres.isLength", "nombres.matches",
               "apellidos.notEmpty", "apellidos.isLength", "apellidos.matches",
               "password.isLength", "password.matches", "password.notContains" } :
      CASE rule = "email.isEmail" -> b.email \notin ValidEmails
        [] rule = "nombres.notEmpty" -> b.nombres \in {"", " "}
        [] rule = "nombres.isLength" -> b.nombres \in {"", " "}
        [] rule = "nombres.matches" -> b.nombres \in {"", " ", "A1"}
        [] rule = "apellidos.notEmpty" -> b.apellidos \in {"", " "}
        [] rule = "apellidos.isLength" -> b.apellidos \in {"", " "}
        [] rule = "apellidos.matches" -> b.apellidos \in {"", " ", "A1"}
        [] rule = "password.isLength" -> b.password \in {"abc", ""}
        [] rule = "password.matches" -> b.password \in {"abc", ""}
        [] rule = "password.notContains" -> FALSE }

\* the rules of validateLogin a body violates
ViolatedLoginRules(b) ==
  { rule \in {"email.isEmail", "password.notEmpty"} :
      CASE rule = "email.isEmail" -> b.email \notin ValidEmails
        [] rule = "password.notEmpty" -> b.password = "" }

Messages(errors) == { errors[i] : i \in 1..Len(errors) }

\* the bodies a client may have sent for the request that arrives in this
\* step: the request holds its body sanitized (email normalized, names trimmed)
SentBodies(r) ==
  { b \in (IF IsRegister(r)' THEN ValidateRegisterBodies ELSE ValidateLoginBodies) :
      sanitize(b) = reqs'[r].body }

\* C16: a register or login request whose body violates a rule is answered
\* 400 in the step it arrives, with an errors list of as many messages, all
\* different, as rules are violated; no lookup, hash or insert is called and
\* the table and the id sequence are unchanged.  A body that violates no rule
\* is not answered 400.
C16_ValidationStep ==
  \A r \in Reqs :
    (Arrives(r) /\ (IsRegister(r)' \/ IsLogin(r)'))
    => /\ SentBodies(r) # {}
       /\ \A b \in SentBodies(r) :
            LET violated == IF IsRegister(r)' THEN ViolatedRegisterRules(b)
                                              ELSE ViolatedLoginRules(b)
            IN IF violated # {}
                 THEN /\ reqs'[r].pc = "done"
                      /\ reqs'[r].res.status = 400
                      /\ reqs'[r].res.success = FALSE
                      /\ Len(reqs'[r].res.errors) = Cardinality(violated)
                      /\ Cardinality(Messages(reqs'[r].res.errors)) = Cardinality(violated)
                      /\ reqs'[r].calls = << >>
                      /\ users' = users
                      /\ lastId' = lastId
                 ELSE /\ reqs'[r].pc = "findByEmail"
                      /\ reqs'[r].res = NoRes

C16_InvalidBodyRejected == [][C16_ValidationStep]_vars

\* with a user registered: a register body that violates five rules (names and
\* password) was answered 400 with five messages, a login body that violates
\* both rules with two, and neither request called anything
C16_Witness ==
  \E r1 \in Reqs : \E r2 \in Reqs :
    /\ users # {}
    /\ IsRegister(r1) /\ Done(r1) /\ reqs[r1].res.status = 400
    /\ Len(reqs[r1].res.errors) = 5
    /\ reqs[r1].calls = << >>
    /\ IsLogin(r2) /\ Done(r2) /\ reqs[r2].res.status = 400
    /\ Len(reqs[r2].res.errors) = 2
    /\ reqs[r2].calls = << >>

\* C17: every response of every route carries a boolean success field and a
\* message field, and a validation failure (400) carries an errors list too.
C17_Envelope ==
  \A r \in Reqs :
    Done(r)
    => /\ "success" \in DOMAIN reqs[r].res
       /\ reqs[r].res.success \in BOOLEAN
       /\ "message" \in DOMAIN reqs[r].res
       /\ (reqs[r].res.status = 400) => ("errors" \in DOMAIN reqs[r].res)

---------------------------------------------------------------------------
(* Properties of optionalAuth, under SpecOptional *)

IsOptional(r) == reqs[r].kind = "optional"

\* C18: optionalAuth never answers and calls next() exactly once.  Every step
\* of a request in optionalAuth sends no response and either hands the request
\* on with the one call of next(), or, on arrival only, waits for the lookup
\* of the subject of a bearer token that is signed by the server and
\* unexpired; the step of the lookup, found, not found or failed, hands the
\* request on.  A user is attached only by the lookup step, when the table
\* holds the row of the token's subject, and it is that row.
C18_OptionalStep ==
  \A r \in Reqs :
    (IsOptional(r)' /\ reqs'[r] # reqs[r])
    => /\ reqs'[r].res = NoRes
       /\ reqs'[r].pc \in {"optionalFindById", "next"}
       /\ (reqs'[r].pc = "next") => (reqs[r].nextCalls = 0 /\ reqs'[r].nextCalls = 1)
       /\ (reqs'[r].pc = "optionalFindById")
            => /\ Arrives(r)
               /\ reqs'[r].nextCalls = 0
               /\ BearerToken(reqs'[r].header)
               /\ SignedByServer(reqs'[r].header.token)
               /\ now < reqs'[r].header.token.exp
       /\ (reqs[r].pc = "optionalFindById") => (reqs'[r].pc = "next")
       /\ (reqs'[r].reqUser # NoRow)
            => /\ reqs[r].pc = "optionalFindById"
               /\ reqs'[r].reqUser \in users
               /\ reqs'[r].reqUser.id = reqs[r].header.token.userId
               /\ reqs'[r].userId = reqs[r].header.token.userId
               /\ reqs'[r].error = "none"
       /\ (reqs'[r].reqUser = NoRow) => (reqs'[r].userId = 0)

C18_OptionalNeverRejects == [][C18_OptionalStep]_vars

\* three requests were handed on by one call of next() and unanswered: one
\* whose lookup failed, one whose subject was not found, both without a user
\* attached, and one with the user attached
C18_Witness ==
  \E r1 \in Reqs : \E r2 \in Reqs : \E r3 \in Reqs :
    /\ \A r \in {r1, r2, r3} :
         /\ IsOptional(r) /\ reqs[r].pc = "next" /\ reqs[r].nextCalls = 1
         /\ reqs[r].res = NoRes
         /\ reqs[r].calls = << "jwt.verify", "findById" >>
    /\ reqs[r1].error = "SQLITE_ERROR" /\ reqs[r1].reqUser = NoRow
    /\ reqs[r2].error = "none" /\ reqs[r2].reqUser = NoRow
    /\ reqs[r3].reqUser # NoRow /\ reqs[r3].userId = reqs[r3].reqUser.id

---------------------------------------------------------------------------
(* Properties of the client, under SpecClient *)

Calls == 1..Len(client.http)
Settles(i) == i \in Calls /\ client.http[i].res = NoRes /\ client'.http[i].res # NoRes

\* C19: the step in which the client's logout completes (the call to the
\* server was answered 200, answered with an error, or not answered) leaves
\* no token in localStorage, user null and isAuthenticated false.
C19_LogoutStep ==
  \A i \in 1..MaxReqs :
    (Settles(i) /\ client.http[i].op = "logout")
    => /\ client'.token = NoToken
       /\ client'.user = NoRow
       /\ client'.isAuthenticated = FALSE

C19_LogoutClearsSession == [][C19_LogoutStep]_vars

\* after a login, two logouts were sent with the login's token, one answered
\* 500 and one not answered, and the session is cleared
C19_Witness ==
  \E i \in Calls : \E j \in Calls : \E k \in Calls :
    /\ client.http[i].op = "login" /\ client.http[i].res.status = 200
    /\ client.http[j].op = "logout" /\ client.http[j].res.status = 500
    /\ client.http[k].op = "logout" /\ client.http[k].res = NoAnswer
    /\ client.http[j].header = requestInterceptor(client.http[i].res.token)
    /\ client.http[k].header = requestInterceptor(client.http[i].res.token)
    /\ client.token = NoToken
    /\ client.user = NoRow
    /\ ~client.isAuthenticated

\* C20: the step in which a call is answered 401 leaves no token in
\* localStorage; and a call is sent with the header 'Bearer ' and the stored
\* token when a token is stored, and with no Authorization header when none
\* is, so that after the removal no call carries a token until a login
\* stores one.
C20_TokenStep ==
  /\ \A i \in 1..MaxReqs :
       (Settles(i) /\ client'.http[i].res.status = 401) => (client'.token = NoToken)
  /\ (Len(client'.http) > Len(client.http))
       => LET call == client'.http[Len(client'.http)]
          IN /\ call.header.present = (client.token # NoToken)
             /\ call.header.present
                  => /\ call.header.prefix = "Bearer "
                     /\ call.header.token = client.token
             /\ client'.token = client.token

C20_TokenAttachedAndDropped == [][C20_TokenStep]_vars

\* a call that carried the stored token was answered 401, and a call sent
\* after it carried no Authorization header
C20_Witness ==
  \E i \in Calls : \E j \in Calls :
    /\ i < j
    /\ client.http[i].header.present
    /\ client.http[i].header.token = EarlierToken
    /\ client.http[i].res.status = 401
    /\ ~client.http[j].header.present
    /\ client.token = NoToken

---------------------------------------------------------------------------
(* Properties of the error responses, under SpecErrors *)

HasStack(r) == "stack" \in DOMAIN reqs[r].res
MessageIn(r, texts) == "message" \in DOMAIN reqs[r].res /\ reqs[r].res.message \in texts

\* C21 as claimed: outside development no response holds a stack trace or the
\* text of an underlying store or library error, the responses of the global
\* error handler included.
C21_AsClaimed ==
  (server.NODE_ENV # "development")
    => \A r \in Reqs :
         /\ ~HasStack(r)
         /\ ~MessageIn(r, CallErrors \cup { err.message : err \in PassedErrors })

\* C21: outside development no response holds a stack trace; in every
\* environment no response holds the text of a store, hashing or signing
\* error, and the answer to a request in which such a call failed is the bare
\* 500 'Error interno del servidor'.  (The global error handler sends the
\* message of the error it was passed in every environment.)
C21_NoStackNoStoreText ==
  \A r \in Reqs :
    /\ (server.NODE_ENV # "development") => ~HasStack(r)
    /\ ~MessageIn(r, CallErrors)
    /\ (reqs[r].error \in CallErrors) => (reqs[r].res = InternalError)
    /\ HasStack(r) => (reqs[r].error = "body-parser error")

\* in production, the error handler answered a rejected body with the parser's
\* message and no stack, and register's catch answered a failed INSERT with
\* the bare 500
C21_Witness ==
  \E r1 \in Reqs : \E r2 \in Reqs :
    /\ server.NODE_ENV = "production"
    /\ reqs[r1].error = "body-parser error" /\ Done(r1)
    /\ reqs[r1].res.status = 400
    /\ reqs[r1].res.message = ParseError.message
    /\ ~HasStack(r1)
    /\ IsRegister(r2) /\ reqs[r2].error = "SQLITE_ERROR"
    /\ reqs[r2].res = InternalError

---------------------------------------------------------------------------
(* Properties of the timestamps of a row, under SpecUpdate *)

\* C22: created_at is set once, at creation: no step changes the created_at of
\* a row, whatever the update data; and every update that changes a row sets
\* its updated_at to the time of that update.
C22_TimestampStep ==
  \A x \in users : \A y \in users' :
    (x.id = y.id) =>
      /\ y.created_at = x.created_at
      /\ (y # x) => (y.updated_at = toISOString(now))
C22_CreatedAtSetOnce == [][C22_TimestampStep]_vars

---------------------------------------------------------------------------
(* Properties of the start of the process, under SpecStartupFair and
   SpecDatabase *)

\* C23: the server listens only after initDatabase has resolved; when
\* initDatabase rejects, the process exits with code 1 and at no time listens.
C23_ListenOnlyAfterInit ==
  /\ [](server.listening => server.init = "resolved")
  /\ []((server.init = "rejected") => (~server.listening /\ server.exitCode \in {-1, 1}))
  /\ ((server.init = "rejected") ~> (server.exitCode = 1))
  /\ [][(server.exitCode = 1) => (server'.exitCode = 1 /\ ~server'.listening)]_vars

\* the process listens and has answered a health check
C23_Witness ==
  /\ server.listening /\ server.init = "resolved"
  /\ \E r \in Reqs : Done(r) /\ reqs[r].kind = "health" /\ reqs[r].res.status = 200

\* C24: getDatabase returns the handle only when the database is initialised:
\* a call made while initDatabase has not completed successfully (not called,
\* in progress, failed) throws.
C24_GetStep ==
  (server'.got # server.got /\ server.init # "resolved") => (server'.got = "throws")
C24_GetDatabaseGuarded == [][C24_GetStep]_vars

---------------------------------------------------------------------------
(* Properties of the pages, under SpecPages *)

SettlesOf(i, op) == Settles(i) /\ client.http[i].op = op /\ client'.http[i].res # Aborted
Answer(i) == client'.http[i].res
NothingSent == Len(client'.http) = Len(client.http)
LastCall == client'.http[Len(client'.http)]

\* C25: the check made when the page is opened ends in one of three ways.
\* Without a stored token it ends at once, unauthenticated, and no call is
\* sent.  With one, when the profile call succeeds the client is authenticated
\* with the user the server returned; when it fails the token is removed, the
\* client is unauthenticated and user is null.  In each case loading is false
\* at the end.
C25_CheckStep ==
  /\ (~client.mounted /\ client'.mounted /\ client.token = NoToken)
       => /\ NothingSent
          /\ ~client'.isAuthenticated
          /\ ~client'.loading
  /\ (~client.mounted /\ client'.mounted /\ client.token # NoToken)
       => /\ ~NothingSent /\ LastCall.op = "profile"
          /\ LastCall.header.token = client.token
  /\ \A i \in 1..MaxReqs :
       SettlesOf(i, "profile")
       => /\ ~client'.loading
          /\ IF Resolves(Answer(i))
               THEN /\ client'.isAuthenticated
                    /\ client'.user = Answer(i).user
                    /\ client'.token = client.token
               ELSE /\ client'.token = NoToken
                    /\ ~client'.isAuthenticated
                    /\ client'.user = NoRow
C25_CheckOutcomes == [][C25_CheckStep]_vars

\* the page was opened with a token, the profile call failed without an
\* answer of the server, and the token is gone
C25_Witness ==
  /\ client.mounted /\ ~client.loading /\ ~client.isAuthenticated
  /\ client.token = NoToken /\ client.user = NoRow
  /\ \E i \in Calls :
       /\ client.http[i].op = "profile"
       /\ client.http[i].header.present
       /\ client.http[i].res = NoAnswer

\* C26: when the register call succeeds, the client logs in with the email and
\* the password it registered, and what register returns is what that login
\* returns; when the register call fails, no login is sent, no token is
\* stored, the client stays unauthenticated and register returns the failure.
C26_RegisterStep ==
  \A i \in 1..MaxReqs :
    /\ SettlesOf(i, "register")
       => IF Resolves(Answer(i))
            THEN /\ Len(client'.http) = Len(client.http) + 1
                 /\ LastCall.op = "login" /\ LastCall.form = client.http[i].form
                 /\ LastCall.body.email = client.http[i].body.email
                 /\ LastCall.body.password = client.http[i].body.password
            ELSE /\ NothingSent
                 /\ client'.token = client.token
                 /\ client'.isAuthenticated = client.isAuthenticated
                 /\ client'.result.settled /\ ~client'.result.success
    /\ (SettlesOf(i, "login") /\ client.http[i].form \in {"register", "unmounted register"})
       => /\ client'.result.settled
          /\ client'.result.success = Resolves(Answer(i))
          /\ client'.result.success
               => /\ client'.result.user = Answer(i).user
                  /\ client'.isAuthenticated
                  /\ client'.token = Answer(i).token
Outstanding(form) ==
  { i \in Calls : client.http[i].form = form /\ client.http[i].res = NoRes }

C29_AuthenticatedHasSession ==
  client.isAuthenticated => (client.user # NoRow /\ client.token # NoToken)

---------------------------------------------------------------------------
(* Properties of the responses sent, under SpecOnce *)

GateDone(r) == IsGated(r) /\ reqs[r].pc \notin {"idle", "gateFindById"}

\* C28: for a request that enters the gate, the gate either sends one response,
\* a 401 or a 500, or calls next() once, never both, and once the gate is
\* through, never neither; and register, login, logout and getProfile send one
\* response for each request they answer, never a second one.
C28_OneResponse ==
  \A r \in Reqs :
    /\ reqs[r].sent <= 1
    /\ Done(r) = (reqs[r].sent = 1)
    /\ reqs[r].gateSent + reqs[r].nextCalls <= 1
    /\ GateDone(r) => (reqs[r].gateSent + reqs[r].nextCalls = 1)
    /\ (reqs[r].gateSent = 1) => (Done(r) /\ reqs[r].res.status \in {401, 500})
    /\ (reqs[r].kind \in {"register", "login", "logout"})
         => (reqs[r].gateSent = 0 /\ reqs[r].nextCalls = 0)
    /\ (reqs[r].kind \notin {"idle"} /\ ~Done(r))
         => reqs[r].pc \in {"findByEmail", "create", "compare", "gateFindById",
                            "profileFindById"}

\* the gate answered one request 401 and one 500, let a third through to
\* getProfile, whose own User.findById failed, and it answered 500
C28_Witness ==
  \E r1 \in Reqs : \E r2 \in Reqs : \E r3 \in Reqs :
    /\ reqs[r1].gateSent = 1 /\ reqs[r1].res.status = 401 /\ reqs[r1].nextCalls = 0
    /\ reqs[r2].gateSent = 1 /\ reqs[r2].res.status = 500 /\ reqs[r2].nextCalls = 0
    /\ reqs[r3].kind = "profile" /\ reqs[r3].gateSent = 0 /\ reqs[r3].nextCalls = 1
    /\ reqs[r3].sent = 1 /\ reqs[r3].res.status = 500

---------------------------------------------------------------------------
(* Properties of created_at in the responses, under SpecResponses *)

\* C30: the created_at of the user in a register response is the created_at
\* stored in the user's row, which is the value login, profile and verify
\* return for that user.
C30_CreatedAtAsStored ==
  \A r \in Reqs :
    (IsRegister(r) /\ Done(r) /\ reqs[r].res.status = 201)
    => /\ \A u \in users :
            (u.id = reqs[r].res.user.id) => (u.created_at = reqs[r].res.user.created_at)
       /\ \A s \in Reqs :
            (/\ Done(s) /\ reqs[s].res.status = 200
             /\ "user" \in DOMAIN reqs[s].res
             /\ reqs[s].res.user.id = reqs[r].res.user.id)
            => (reqs[s].res.user.created_at = reqs[r].res.user.created_at)

====
